---- MODULE Spec2Model ----
(***************************************************************************)
(* cpitd clone-detection engine: tokeniser position/normalisation, line    *)
(* hasher, fixed-alignment hash tree, collision index, aggregator and the  *)
(* two-stage suppression filter, as state machines over bounded inputs.    *)
(*                                                                         *)
(* Text (file paths, lexemes, source lines, glob patterns) is a sequence   *)
(* of one-character strings; CodePoint orders the characters as Python's   *)
(* str comparison does.  Python's hash() is modelled as an ideal           *)
(* (collision-free) hash: HashTuple for hash(tuple(values)) and HashPair   *)
(* for hash((left, right)); the index itself is also driven with           *)
(* arbitrary integer hash values (SpecIndex), where values may collide.    *)
(***************************************************************************)
EXTENDS Integers, Sequences, FiniteSets, TLC

VARIABLES
    corpus,       \* Spec: input files in processing order, [path, tokens]
    hashed,       \* Spec: hash_lines results of the files processed so far
    trees,        \* Spec: build_hash_tree results of the files processed so far
    indexed,      \* the LineHashIndex.add calls made so far, [path, tree] in call order
    index,        \* LineHashIndex._index: buckets [key, locs] in key insertion order
    pc,           \* position of the caller: "load", "found", "aggregated"
    min_token_count,   \* argument of the last find_clones call
    matches,      \* result of the last find_clones call
    min_group_tokens,  \* argument of the last aggregate_clone_matches call
    reports,      \* result of the last aggregate_clone_matches call
    scan_files,   \* SpecScan: the discovered files in path order, [path, source]
    scan_min_tokens,   \* SpecScan: config.min_tokens of every scan of the corpus
    scanned,      \* SpecScan: the normalisation levels scanned so far
    scan_reports, \* SpecScan: the reports scan returned, by normalisation level
    scan_suppress,     \* SpecScan: whether the config object has the attribute
                       \* suppress_patterns, and its value
    scan_raised,  \* SpecScan: the exception scan raised, "" if none, by level
    scan_aggregated,   \* SpecScan: what aggregate_clone_matches returned to scan
    file_texts,   \* SpecFilter: the read function, path -> text or None
    suppress,     \* SpecFilter: the suppress pattern tuple
    filter_input, \* SpecFilter: the reports handed to the first call
    filter_calls, \* SpecFilter: filter_reports calls made, [input, result, reads]
    stage_calls,  \* SpecFilter: run_filters calls made with no stage
    stage_ctx,    \* SpecStages: the FilterContext the stages are called with
    stage_reports,     \* SpecStages: the reports the next stage call receives
    stage_trace,  \* SpecStages: stage calls made, [stage, input, output, ctx]
    merged,       \* SpecOrder: what _merge_consecutive_matches returned, if called
    rearranged    \* SpecOrder: aggregate_clone_matches called on the matches in
                  \* another order, [matches, reports]

engineVars == <<corpus, hashed, trees, indexed, index, pc, min_token_count, matches,
                min_group_tokens, reports>>

scanVars == <<scan_files, scan_min_tokens, scanned, scan_reports, scan_suppress,
              scan_raised, scan_aggregated>>

filterVars == <<file_texts, suppress, filter_input, filter_calls, stage_calls>>

stageVars == <<stage_ctx, stage_reports, stage_trace>>

orderVars == <<merged, rearranged>>

vars == <<engineVars, scanVars, filterVars, stageVars, orderVars>>

---------------------------------------------------------------------------
(* Python built-ins used by the code *)

\* ord() of the characters that occur in the modelled file paths
CodePoint(c) ==
    CASE c = "a" -> 97
      [] c = "b" -> 98
      [] c = "c" -> 99
      [] c = "n" -> 110

\* str.__lt__: lexicographic by code point, a proper prefix is smaller
RECURSIVE StrLess(_, _)
StrLess(s, t) ==
    IF t = <<>> THEN FALSE
    ELSE IF s = <<>> THEN TRUE
    ELSE IF Head(s) # Head(t) THEN CodePoint(Head(s)) < CodePoint(Head(t))
    ELSE StrLess(Tail(s), Tail(t))

\* str.__le__
StrLeq(s, t) == s = t \/ StrLess(s, t)

\* sorted(seq, key=...): stable; Less(x, y) is "key(x) < key(y)"
StableSort(seq, Less(_, _)) ==
    LET n == Len(seq)
        rank == [k \in 1..n |->
                    Cardinality({j \in 1..n :
                        \/ Less(seq[j], seq[k])
                        \/ (~Less(seq[k], seq[j]) /\ j < k)}) + 1]
    IN  [i \in 1..n |-> seq[CHOOSE k \in 1..n : rank[k] = i]]

\* sequence concatenation of a sequence of sequences (halving keeps the
\* evaluation shallow on long inputs)
RECURSIVE Flatten(_)
Flatten(seqs) ==
    IF seqs = <<>> THEN <<>>
    ELSE IF Len(seqs) = 1 THEN seqs[1]
    ELSE LET h == Len(seqs) \div 2
         IN  Flatten(SubSeq(seqs, 1, h)) \o Flatten(SubSeq(seqs, h + 1, Len(seqs)))

\* [F(x) for x in seq if P(x)]
MapFilter(seq, P(_), F(_)) ==
    LET kept == SelectSeq(seq, P)
    IN  [i \in 1..Len(kept) |-> F(kept[i])]

---------------------------------------------------------------------------
(* winnowing.py: line hasher and hash tree *)

_MAX_TREE_LEVEL == 8

\* hash(tuple(values)) of the token values of one line
HashTuple(values) == <<0, values>>

\* hash((left.hash_value, right.hash_value))
HashPair(l, r) == <<1, <<l, r>>>>

\* the token values of one source line, in token order (by_line[t.line])
ValuesOnLine(toks, ln) ==
    LET on == SelectSeq(toks, LAMBDA t : t.line = ln)
    IN  [i \in 1..Len(on) |-> on[i].value]

\* sorted(by_line.items()): the line numbers that carry a token, ascending
RECURSIVE SortedLines(_)
SortedLines(S) ==
    IF S = {} THEN <<>>
    ELSE LET m == CHOOSE x \in S : \A y \in S : x <= y
         IN  <<m>> \o SortedLines(S \ {m})

hash_lines(toks) ==
    LET lines == SortedLines({toks[i].line : i \in DOMAIN toks})
    IN  [i \in 1..Len(lines) |->
            LET values == ValuesOnLine(toks, lines[i])
            IN  [hash_value |-> HashTuple(values),
                 line |-> lines[i],
                 token_count |-> Len(values)]]

\* level 0 of the tree: one leaf per line hash
LeafLevel(line_hashes) ==
    [i \in 1..Len(line_hashes) |->
        [hash_value |-> line_hashes[i].hash_value,
         start_line |-> line_hashes[i].line,
         end_line |-> line_hashes[i].line,
         level |-> 0,
         token_count |-> line_hashes[i].token_count]]

\* mutant: an odd trailing node is carried to the next level
PairLevelPromotes(prev, lvl) ==
    [j \in 1..((Len(prev) + 1) \div 2) |->
        LET left == prev[2 * j - 1]
            right == IF 2 * j <= Len(prev) THEN prev[2 * j] ELSE left
        IN  IF 2 * j > Len(prev) THEN [left EXCEPT !.level = lvl]
            ELSE [hash_value |-> HashPair(left.hash_value, right.hash_value),
                  start_line |-> left.start_line,
                  end_line |-> right.end_line,
                  level |-> lvl,
                  token_count |-> left.token_count + right.token_count]]

\* one pass of "for i in range(0, len(prev) - 1, 2)"
PairLevel(prev, lvl) ==
    [j \in 1..(Len(prev) \div 2) |->
        LET left == prev[2 * j - 1]
            right == prev[2 * j]
        IN  [hash_value |-> HashPair(left.hash_value, right.hash_value),
             start_line |-> left.start_line,
             end_line |-> right.end_line,
             level |-> lvl,
             token_count |-> left.token_count + right.token_count]]

\* mutant: levels are added until one has fewer than 2 nodes, with no cap
RECURSIVE BuildLevelsNoCap(_, _)
BuildLevelsNoCap(levels, lvl) ==
    IF Len(levels[lvl]) < 2 THEN levels
    ELSE BuildLevelsNoCap(Append(levels, PairLevel(levels[lvl], lvl)), lvl + 1)

\* "for lvl in range(1, _MAX_TREE_LEVEL + 1)"; levels[lvl] is Python's levels[lvl - 1]
RECURSIVE BuildLevels(_, _)
BuildLevels(levels, lvl) ==
    IF lvl > _MAX_TREE_LEVEL THEN levels
    ELSE IF Len(levels[lvl]) < 2 THEN levels
    ELSE BuildLevels(Append(levels, PairLevel(levels[lvl], lvl)), lvl + 1)

build_hash_tree(line_hashes) ==
    IF line_hashes = <<>> THEN <<>>
    ELSE BuildLevels(<<LeafLevel(line_hashes)>>, 1)

---------------------------------------------------------------------------
(* indexer.py: collision index *)

_MAX_BUCKET_SIZE == 100

NodeLocation(file_path, node) == [file_path |-> file_path, node |-> node]

CloneMatch(left, right, level, shared_hash) ==
    [left |-> left, right |-> right, level |-> level, shared_hash |-> shared_hash]

\* mutant: strict comparison, ranges that only touch do not overlap
RangesOverlapStrict(a, b) ==
    a.start_line < b.end_line /\ b.start_line < a.end_line

_ranges_overlap(a, b) ==
    a.start_line <= b.end_line /\ b.start_line <= a.end_line

\* LineHashIndex.add: "self._index[node.hash_value].append(...)" for every
\* node of every level, level by level.  On the defaultdict this appends to
\* the bucket of a key already present and creates the buckets of new keys
\* in the order of their first node.
add(idx, file_path, tree) ==
    LET nodes == Flatten(tree)
        locs == [i \in 1..Len(nodes) |-> NodeLocation(file_path, nodes[i])]
        Under(key) == SelectSeq(locs, LAMBDA l : l.node.hash_value = key)
        IsFirstOfNewKey(i) ==
            /\ \A b \in DOMAIN idx : idx[b].key # nodes[i].hash_value
            /\ \A j \in 1..(i - 1) : nodes[j].hash_value # nodes[i].hash_value
        first == SelectSeq([i \in 1..Len(nodes) |-> i], IsFirstOfNewKey)
    IN  [b \in DOMAIN idx |->
            [key |-> idx[b].key, locs |-> idx[b].locs \o Under(idx[b].key)]]
        \o [k \in 1..Len(first) |->
            [key |-> nodes[first[k]].hash_value,
             locs |-> Under(nodes[first[k]].hash_value)]]

\* mutant: the inner loop walks the whole bucket
RightLoopAllLocations(locations, i, hash_value, min_tc) ==
    LET left == locations[i]
        Emits(right) ==
            /\ ~(right.node.token_count < min_tc)
            /\ ~(left.file_path = right.file_path
                 /\ _ranges_overlap(left.node, right.node))
        Match(right) == CloneMatch(left, right, left.node.level, hash_value)
    IN  MapFilter(locations, Emits, Match)

\* "for right in locations[i + 1:]" for the left location at position i
RightLoop(locations, i, hash_value, min_tc) ==
    LET left == locations[i]
        Emits(right) ==
            /\ ~(right.node.token_count < min_tc)
            /\ ~(left.file_path = right.file_path
                 /\ _ranges_overlap(left.node, right.node))
        Match(right) == CloneMatch(left, right, left.node.level, hash_value)
    IN  MapFilter(SubSeq(locations, i + 1, Len(locations)), Emits, Match)

\* "for i, left in enumerate(locations)"
LeftLoop(locations, hash_value, min_tc) ==
    Flatten([i \in 1..Len(locations) |->
                IF locations[i].node.token_count < min_tc THEN <<>>
                ELSE RightLoop(locations, i, hash_value, min_tc)])

\* mutant: the cap excludes a bucket of exactly _MAX_BUCKET_SIZE locations
BucketSkippedAtCap(locations) ==
    Len(locations) < 2 \/ Len(locations) >= _MAX_BUCKET_SIZE

\* the bucket filter of find_clones
BucketSkipped(locations) ==
    Len(locations) < 2 \/ Len(locations) > _MAX_BUCKET_SIZE

BucketMatches(bucket, min_tc) ==
    IF BucketSkipped(bucket.locs) THEN <<>>
    ELSE LeftLoop(bucket.locs, bucket.key, min_tc)

\* LineHashIndex.find_clones
find_clones(idx, min_tc) ==
    Flatten([b \in DOMAIN idx |-> BucketMatches(idx[b], min_tc)])

---------------------------------------------------------------------------
(* reporter.py: aggregator *)

CloneGroup(file_a, lines_a, file_b, lines_b, line_count, token_count) ==
    [file_a |-> file_a, lines_a |-> lines_a, file_b |-> file_b,
     lines_b |-> lines_b, line_count |-> line_count, token_count |-> token_count]

CloneReport(file_a, file_b, groups, total_cloned_lines) ==
    [file_a |-> file_a, file_b |-> file_b, groups |-> groups,
     total_cloned_lines |-> total_cloned_lines]

\* mutant: the pair is never exchanged
NormalizeFilePairNoSwap(file_a, file_b) ==
    [file_a |-> file_a, file_b |-> file_b, swapped |-> FALSE]

\* (smaller, larger, swapped)
_normalize_file_pair(file_a, file_b) ==
    IF StrLeq(file_a, file_b)
    THEN [file_a |-> file_a, file_b |-> file_b, swapped |-> FALSE]
    ELSE [file_a |-> file_b, file_b |-> file_a, swapped |-> TRUE]

\* the match as appended to by_pair: sides exchanged when the pair was swapped
Canonical(m) ==
    IF _normalize_file_pair(m.left.file_path, m.right.file_path).swapped
    THEN CloneMatch(m.right, m.left, m.level, m.shared_hash)
    ELSE m

\* the by_pair key of a match
PairKey(m) ==
    LET n == _normalize_file_pair(m.left.file_path, m.right.file_path)
    IN  <<n.file_a, n.file_b>>

\* tuple order of the by_pair keys (sorted(by_pair.items()))
PairLess(p, q) ==
    StrLess(p[1], q[1]) \/ (p[1] = q[1] /\ StrLess(p[2], q[2]))

\* mutant: the keys in descending order
RECURSIVE SortedPairsDescending(_)
SortedPairsDescending(S) ==
    IF S = {} THEN <<>>
    ELSE LET m == CHOOSE x \in S : \A y \in S \ {x} : PairLess(y, x)
         IN  <<m>> \o SortedPairsDescending(S \ {m})

RECURSIVE SortedPairs(_)
SortedPairs(S) ==
    IF S = {} THEN <<>>
    ELSE LET m == CHOOSE x \in S : \A y \in S \ {x} : PairLess(x, y)
         IN  <<m>> \o SortedPairs(S \ {m})

\* key=lambda m: (m.left.node.start_line, m.right.node.start_line)
MatchLess(m, n) ==
    \/ m.left.node.start_line < n.left.node.start_line
    \/ /\ m.left.node.start_line = n.left.node.start_line
       /\ m.right.node.start_line < n.right.node.start_line

\* the open group of the coalescing walk, started at match m
OpenAt(m, groups) ==
    [groups |-> groups,
     cur_a_start |-> m.left.node.start_line,
     cur_a_end |-> m.left.node.end_line,
     cur_b_start |-> m.right.node.start_line,
     cur_b_end |-> m.right.node.end_line,
     cur_tokens |-> m.left.node.token_count,
     file_a |-> m.left.file_path,
     file_b |-> m.right.file_path]

\* the CloneGroup emitted when the open group is closed
CloseGroup(st) ==
    CloneGroup(st.file_a, <<st.cur_a_start, st.cur_a_end>>,
               st.file_b, <<st.cur_b_start, st.cur_b_end>>,
               st.cur_a_end - st.cur_a_start + 1, st.cur_tokens)

\* mutant: the open group is extended whenever the left line is the next one
MergeStepLeftOnly(st, m) ==
    LET a_line == m.left.node.start_line
        b_line == m.right.node.start_line
    IN  IF a_line = st.cur_a_end + 1
        THEN [st EXCEPT !.cur_a_end = a_line,
                        !.cur_b_end = b_line,
                        !.cur_tokens = @ + m.left.node.token_count]
        ELSE [OpenAt(m, Append(st.groups, CloseGroup(st))) EXCEPT
                        !.cur_a_start = a_line, !.cur_b_start = b_line]

\* one iteration of "for m in sorted_matches[1:]"
MergeStep(st, m) ==
    LET a_line == m.left.node.start_line
        b_line == m.right.node.start_line
    IN  IF a_line = st.cur_a_end + 1 /\ b_line = st.cur_b_end + 1
        THEN [st EXCEPT !.cur_a_end = a_line,
                        !.cur_b_end = b_line,
                        !.cur_tokens = @ + m.left.node.token_count]
        ELSE [OpenAt(m, Append(st.groups, CloseGroup(st))) EXCEPT
                        !.cur_a_start = a_line, !.cur_b_start = b_line]

RECURSIVE MergeLoop(_, _)
MergeLoop(st, ms) ==
    IF ms = <<>> THEN st ELSE MergeLoop(MergeStep(st, Head(ms)), Tail(ms))

\* mutant: the matches are walked in the order given
MergeConsecutiveUnsorted(ms) ==
    IF ms = <<>> THEN <<>>
    ELSE LET st == MergeLoop(OpenAt(ms[1], <<>>), Tail(ms))
         IN  Append(st.groups, CloseGroup(st))

_merge_consecutive_matches(ms) ==
    IF ms = <<>> THEN <<>>
    ELSE LET sorted_matches == StableSort(ms, MatchLess)
             st == MergeLoop(OpenAt(sorted_matches[1], <<>>), Tail(sorted_matches))
         IN  Append(st.groups, CloseGroup(st))

_higher_level_to_group(m) ==
    CloneGroup(m.left.file_path,
               <<m.left.node.start_line, m.left.node.end_line>>,
               m.right.file_path,
               <<m.right.node.start_line, m.right.node.end_line>>,
               m.left.node.end_line - m.left.node.start_line + 1,
               m.left.node.token_count)

\* the subsumption test of _deduplicate_groups: g lies inside k on both sides
\* mutant: a group is subsumed only by a group of more lines
SubsumesStrictly(k, g) ==
    /\ g.file_a = k.file_a
    /\ g.file_b = k.file_b
    /\ k.lines_a[1] <= g.lines_a[1]
    /\ g.lines_a[2] <= k.lines_a[2]
    /\ k.lines_b[1] <= g.lines_b[1]
    /\ g.lines_b[2] <= k.lines_b[2]
    /\ g.line_count < k.line_count

Subsumes(k, g) ==
    /\ g.file_a = k.file_a
    /\ g.file_b = k.file_b
    /\ k.lines_a[1] <= g.lines_a[1]
    /\ g.lines_a[2] <= k.lines_a[2]
    /\ k.lines_b[1] <= g.lines_b[1]
    /\ g.lines_b[2] <= k.lines_b[2]

\* "for g in by_size": kept grows by the groups no kept group subsumes
RECURSIVE DedupLoop(_, _)
DedupLoop(kept, by_size) ==
    IF by_size = <<>> THEN kept
    ELSE LET g == Head(by_size)
         IN  IF \E i \in DOMAIN kept : Subsumes(kept[i], g)
             THEN DedupLoop(kept, Tail(by_size))
             ELSE DedupLoop(Append(kept, g), Tail(by_size))

\* key=lambda g: (g.file_a, g.lines_a)
GroupLess(g, k) ==
    \/ StrLess(g.file_a, k.file_a)
    \/ /\ g.file_a = k.file_a
       /\ \/ g.lines_a[1] < k.lines_a[1]
          \/ (g.lines_a[1] = k.lines_a[1] /\ g.lines_a[2] < k.lines_a[2])

\* mutant: reverse=True forgotten, smallest groups first
SmallerFirst(g, k) == g.line_count < k.line_count

\* key=lambda g: g.line_count, reverse=True
LargerFirst(g, k) == g.line_count > k.line_count

_deduplicate_groups(groups) ==
    StableSort(DedupLoop(<<>>, StableSort(groups, LargerFirst)), GroupLess)

RECURSIVE SumLineCount(_)
SumLineCount(groups) ==
    IF groups = <<>> THEN 0
    ELSE Head(groups).line_count + SumLineCount(Tail(groups))

\* the groups of one by_pair entry, after the token filter and deduplication
\* mutant: the token filter is applied to the groups deduplication kept
PairGroupsFilterLast(pair_matches, min_gt) ==
    LET level_0 == SelectSeq(pair_matches, LAMBDA m : m.level = 0)
        higher == SelectSeq(pair_matches, LAMBDA m : m.level > 0)
        groups == _merge_consecutive_matches(level_0)
                  \o [i \in 1..Len(higher) |-> _higher_level_to_group(higher[i])]
    IN  SelectSeq(_deduplicate_groups(groups), LAMBDA g : g.token_count >= min_gt)

PairGroups(pair_matches, min_gt) ==
    LET level_0 == SelectSeq(pair_matches, LAMBDA m : m.level = 0)
        higher == SelectSeq(pair_matches, LAMBDA m : m.level > 0)
        groups == _merge_consecutive_matches(level_0)
                  \o [i \in 1..Len(higher) |-> _higher_level_to_group(higher[i])]
    IN  _deduplicate_groups(SelectSeq(groups, LAMBDA g : g.token_count >= min_gt))

aggregate_clone_matches(ms, min_gt) ==
    LET canon == [i \in 1..Len(ms) |-> Canonical(ms[i])]
        keys == SortedPairs({PairKey(canon[i]) : i \in 1..Len(canon)})
        ReportOf(key) ==
            LET groups == PairGroups(SelectSeq(canon, LAMBDA m : PairKey(m) = key),
                                     min_gt)
            IN  IF groups = <<>> THEN <<>>
                ELSE <<CloneReport(key[1], key[2], groups, SumLineCount(groups))>>
    IN  Flatten([i \in 1..Len(keys) |-> ReportOf(keys[i])])

---------------------------------------------------------------------------
(* filter.py: suppression filter *)

\* the result of a read function: text, or None for an absent file
None == [ok |-> FALSE, text |-> <<>>]
Some(text) == [ok |-> TRUE, text |-> text]

\* str.splitlines() of text whose only line boundary is "\n"
RECURSIVE SplitLoop(_, _, _)
SplitLoop(source, cur, acc) ==
    IF source = <<>> THEN (IF cur = <<>> THEN acc ELSE Append(acc, cur))
    ELSE IF Head(source) = "\n" THEN SplitLoop(Tail(source), <<>>, Append(acc, cur))
    ELSE SplitLoop(Tail(source), Append(cur, Head(source)), acc)

splitlines(source) == SplitLoop(source, <<>>, <<>>)

\* fnmatch.fnmatch(name, pat) for patterns of literals, "*" and "?"
RECURSIVE fnmatch(_, _)
fnmatch(name, pat) ==
    IF pat = <<>> THEN name = <<>>
    ELSE IF Head(pat) = "*"
         THEN fnmatch(name, Tail(pat)) \/ (name # <<>> /\ fnmatch(Tail(name), pat))
    ELSE IF name = <<>> THEN FALSE
    ELSE IF Head(pat) = "?" THEN fnmatch(Tail(name), Tail(pat))
    ELSE Head(pat) = Head(name) /\ fnmatch(Tail(name), Tail(pat))

\* mutant: the lines of the range alone, no line above
ExtractLinesNoContext(source, line_range, context_above) ==
    LET lines == splitlines(source)
        end == IF line_range[2] < Len(lines) THEN line_range[2] ELSE Len(lines)
    IN  IF line_range[1] > end THEN <<>> ELSE SubSeq(lines, line_range[1], end)

\* lines[start - 1 : end] after start = max(1, start - context_above)
_extract_lines(source, line_range, context_above) ==
    LET lines == splitlines(source)
        start == IF line_range[1] - context_above > 1
                 THEN line_range[1] - context_above ELSE 1
        end == IF line_range[2] < Len(lines) THEN line_range[2] ELSE Len(lines)
    IN  IF start > end THEN <<>> ELSE SubSeq(lines, start, end)

\* mutant: a location overlaps only the entry equal to it
LocationOverlapsExact(loc, suppressed) == loc \in suppressed

\* a location is <<file_path, <<start_line, end_line>>>>
_location_overlaps(loc, suppressed) ==
    \E s \in suppressed :
        s[1] = loc[1] /\ loc[2][1] <= s[2][2] /\ s[2][1] <= loc[2][2]

\* mutant: the kept groups replace the report's groups and its total stays
FilteredReportKeepsTotal(report, groups) ==
    IF groups = <<>> THEN <<>>
    ELSE <<CloneReport(report.file_a, report.file_b, groups,
                       report.total_cloned_lines)>>

\* the report _filter_groups appends for the kept groups, none if all are gone
FilteredReport(report, groups) ==
    IF groups = <<>> THEN <<>>
    ELSE <<CloneReport(report.file_a, report.file_b, groups, SumLineCount(groups))>>

\* _filter_groups with a keep that reads no shared state
_filter_groups(reps, keep(_)) ==
    Flatten([i \in 1..Len(reps) |->
                FilteredReport(reps[i], SelectSeq(reps[i].groups, keep))])

\* FilterContext(read_fn); reads lists the read_fn calls made through it
FilterContext(read_fn) ==
    [read_fn |-> read_fn, cache |-> <<>>, suppressed_locations |-> {},
     reads |-> <<>>]

\* mutant: the file is read whether or not the cache holds it
CacheLoadAlways(ctx, file_path) ==
    [ctx EXCEPT !.cache = (file_path :> ctx.read_fn[file_path]) @@ @,
                !.reads = Append(@, file_path)]

\* if file_path not in ctx.cache: ctx.cache[file_path] = ctx.read_fn(file_path)
CacheLoad(ctx, file_path) ==
    IF file_path \in DOMAIN ctx.cache THEN ctx
    ELSE [ctx EXCEPT !.cache = @ @@ (file_path :> ctx.read_fn[file_path]),
                     !.reads = Append(@, file_path)]

\* one side of a group matches: some extracted line matches some pattern
SideMatches(ctx, file_path, line_range, patterns) ==
    LET source == ctx.cache[file_path]
        lines == _extract_lines(source.text, line_range, 1)
    IN  /\ source.ok
        /\ \E i \in DOMAIN lines : \E p \in DOMAIN patterns :
              fnmatch(lines[i], patterns[p])

\* mutant: an absent source ends the check of the group, the other side
\* is not looked at
GroupMatchesStopAtAbsent(group, ctx, patterns) ==
    LET ctx_a == CacheLoad(ctx, group.file_a)
    IN  IF ~ ctx_a.cache[group.file_a].ok
        THEN [matched |-> FALSE, ctx |-> ctx_a]
        ELSE IF SideMatches(ctx_a, group.file_a, group.lines_a, patterns)
        THEN [matched |-> TRUE, ctx |-> ctx_a]
        ELSE LET ctx_b == CacheLoad(ctx_a, group.file_b)
             IN  [matched |-> SideMatches(ctx_b, group.file_b, group.lines_b,
                                          patterns),
                  ctx |-> ctx_b]

\* PatternMatchStage._group_matches: side a, then side b unless side a matched
_group_matches(group, ctx, patterns) ==
    LET ctx_a == CacheLoad(ctx, group.file_a)
    IN  IF SideMatches(ctx_a, group.file_a, group.lines_a, patterns)
        THEN [matched |-> TRUE, ctx |-> ctx_a]
        ELSE LET ctx_b == CacheLoad(ctx_a, group.file_b)
             IN  [matched |-> SideMatches(ctx_b, group.file_b, group.lines_b,
                                          patterns),
                  ctx |-> ctx_b]

\* mutant: only the first side of a matching group is recorded
SuppressedAfterFirstSide(suppressed, g, matched) ==
    IF matched THEN suppressed \cup {<<g.file_a, g.lines_a>>} ELSE suppressed

\* keep(g) of PatternMatchStage: the locations recorded once g is decided
SuppressedAfter(suppressed, g, matched) ==
    IF matched
    THEN suppressed \cup {<<g.file_a, g.lines_a>>, <<g.file_b, g.lines_b>>}
    ELSE suppressed

\* mutant: the matching groups are removed from the list while it is
\* iterated, so the group after a removed one is never tested
RECURSIVE KeepGroupsInPlace(_, _, _)
KeepGroupsInPlace(groups, st, patterns) ==
    IF groups = <<>> THEN st
    ELSE LET g == Head(groups)
             r == _group_matches(g, st.ctx, patterns)
             suppressed == SuppressedAfter(st.suppressed, g, r.matched)
         IN  IF ~ r.matched
             THEN KeepGroupsInPlace(Tail(groups),
                                    [ctx |-> r.ctx, suppressed |-> suppressed,
                                     kept |-> Append(st.kept, g)],
                                    patterns)
             ELSE IF Len(groups) = 1
             THEN [ctx |-> r.ctx, suppressed |-> suppressed, kept |-> st.kept]
             ELSE KeepGroupsInPlace(SubSeq(groups, 3, Len(groups)),
                                    [ctx |-> r.ctx, suppressed |-> suppressed,
                                     kept |-> Append(st.kept, groups[2])],
                                    patterns)

\* [g for g in report.groups if keep(g)] with the keep of PatternMatchStage;
\* st carries ctx, the local suppressed set and the groups kept so far
RECURSIVE KeepGroups(_, _, _)
KeepGroups(groups, st, patterns) ==
    IF groups = <<>> THEN st
    ELSE LET g == Head(groups)
             after(r) ==
                 [ctx |-> r.ctx,
                  suppressed |-> SuppressedAfter(st.suppressed, g, r.matched),
                  kept |-> IF r.matched THEN st.kept ELSE Append(st.kept, g)]
         IN  CHOOSE out \in
                 {KeepGroups(Tail(groups), s, patterns) :
                     s \in {after(r) : r \in {_group_matches(g, st.ctx, patterns)}}} :
                 TRUE

\* mutant: a filtered report is put in front of those before it
RECURSIVE KeepReportsPrepending(_, _, _)
KeepReportsPrepending(reps, st, patterns) ==
    IF reps = <<>> THEN st
    ELSE LET after(r) ==
                 [ctx |-> r.ctx, suppressed |-> r.suppressed,
                  filtered |-> FilteredReport(Head(reps), r.kept) \o st.filtered]
             groups == KeepGroups(Head(reps).groups,
                                  [ctx |-> st.ctx, suppressed |-> st.suppressed,
                                   kept |-> <<>>],
                                  patterns)
         IN  CHOOSE out \in
                 {KeepReportsPrepending(Tail(reps), s, patterns) :
                     s \in {after(r) : r \in {groups}}} :
                 TRUE

\* _filter_groups(reports, keep) with the keep of PatternMatchStage
RECURSIVE KeepReports(_, _, _)
KeepReports(reps, st, patterns) ==
    IF reps = <<>> THEN st
    ELSE LET after(r) ==
                 [ctx |-> r.ctx, suppressed |-> r.suppressed,
                  filtered |-> st.filtered \o FilteredReport(Head(reps), r.kept)]
             groups == KeepGroups(Head(reps).groups,
                                  [ctx |-> st.ctx, suppressed |-> st.suppressed,
                                   kept |-> <<>>],
                                  patterns)
         IN  CHOOSE out \in
                 {KeepReports(Tail(reps), s, patterns) :
                     s \in {after(r) : r \in {groups}}} :
                 TRUE

\* PatternMatchStage(patterns)(reports, ctx)
PatternMatchStage(patterns, reps, ctx) ==
    LET result(r) ==
            [reports |-> r.filtered,
             ctx |-> [r.ctx EXCEPT !.suppressed_locations = @ \cup r.suppressed]]
    IN  CHOOSE out \in
            {result(r) :
                r \in {KeepReports(reps,
                                   [ctx |-> ctx, suppressed |-> {}, filtered |-> <<>>],
                                   patterns)}} :
            TRUE

\* mutant: the locations of the groups removed as siblings count as
\* suppressed locations too
SiblingStageTwoHops(reps, ctx) ==
    LET locs == ctx.suppressed_locations
        both(g, ls) == /\ _location_overlaps(<<g.file_a, g.lines_a>>, ls)
                       /\ _location_overlaps(<<g.file_b, g.lines_b>>, ls)
        groups == UNION {{reps[i].groups[j] : j \in DOMAIN reps[i].groups} :
                            i \in DOMAIN reps}
        more == locs \cup UNION {{<<g.file_a, g.lines_a>>, <<g.file_b, g.lines_b>>} :
                                    g \in {k \in groups : both(k, locs)}}
        keep(g) == ~ both(g, more)
    IN  [reports |-> _filter_groups(reps, keep), ctx |-> ctx]

\* SiblingStage()(reports, ctx)
SiblingStage(reps, ctx) ==
    LET locs == ctx.suppressed_locations
        keep(g) == ~ (/\ _location_overlaps(<<g.file_a, g.lines_a>>, locs)
                      /\ _location_overlaps(<<g.file_b, g.lines_b>>, locs))
    IN  [reports |-> _filter_groups(reps, keep), ctx |-> ctx]

\* stage(reports, ctx) for a stage [kind, patterns]
CallStage(stage, reps, ctx) ==
    IF stage.kind = "PatternMatchStage"
    THEN PatternMatchStage(stage.patterns, reps, ctx)
    ELSE SiblingStage(reps, ctx)

RECURSIVE StageLoop(_, _, _)
StageLoop(stages, reps, ctx) ==
    IF stages = <<>> THEN [reports |-> reps, reads |-> ctx.reads]
    ELSE CHOOSE out \in
             {StageLoop(Tail(stages), r.reports, r.ctx) :
                 r \in {CallStage(Head(stages), reps, ctx)}} :
             TRUE

\* mutant: the two stages run on one report after the other, the second
\* stage seeing the locations recorded up to that report
RunFiltersPerReport(reps, stages, read_fn) ==
    IF Len(stages) # 2 THEN StageLoop(stages, reps, FilterContext(read_fn))
    ELSE LET upto(i) == CallStage(stages[1], SubSeq(reps, 1, i),
                                  FilterContext(read_fn)).ctx
             one(i) == CallStage(stages[2],
                                 CallStage(stages[1], <<reps[i]>>, upto(i - 1)).reports,
                                 upto(i)).reports
         IN  [reports |-> Flatten([i \in 1..Len(reps) |-> one(i)]),
              reads |-> upto(Len(reps)).reads]

\* run_filters: the reports returned and the read_fn calls made
run_filters(reps, stages, read_fn) ==
    StageLoop(stages, reps, FilterContext(read_fn))

\* the stage list filter_reports builds
FilterStages(suppress_patterns) ==
    <<[kind |-> "PatternMatchStage", patterns |-> suppress_patterns],
      [kind |-> "SiblingStage", patterns |-> <<>>]>>

\* mutant: no early return for an empty pattern tuple
FilterReportsNoEarlyReturn(reps, suppress_patterns, read_fn) ==
    run_filters(reps, FilterStages(suppress_patterns), read_fn)

\* filter_reports: the reports returned and the read_fn calls made
filter_reports(reps, suppress_patterns, read_fn) ==
    IF suppress_patterns = <<>> THEN [reports |-> reps, reads |-> <<>>]
    ELSE run_filters(reps, FilterStages(suppress_patterns), read_fn)

---------------------------------------------------------------------------
(* tokenizer.py: normalisation and position tracking over the lexemes     *)
(* <<ttype, value>> that pygments' lex() yields; a token type is the      *)
(* sequence of its name parts, Token.Name.Function = <<"Name","Function">> *)

EXACT == 0
IDENTIFIERS == 1
LITERALS == 2

NormalizationLevel == {EXACT, IDENTIFIERS, LITERALS}

Token(value, line, column) == [value |-> value, line |-> line, column |-> column]

_SKIP_TYPES ==
    {<<"Text">>, <<"Text", "Whitespace">>, <<"Comment">>, <<"Comment", "Single">>,
     <<"Comment", "Multiline">>, <<"Comment", "Preproc">>,
     <<"Comment", "PreprocFile">>, <<"Comment", "Special">>,
     <<"Comment", "Hashbang">>}

_IDENTIFIER_TYPES ==
    {<<"Name">>, <<"Name", "Variable">>, <<"Name", "Function">>,
     <<"Name", "Class">>, <<"Name", "Attribute">>, <<"Name", "Other">>}

_LITERAL_TYPES ==
    {<<"Literal">>, <<"Literal", "String">>, <<"Literal", "String", "Single">>,
     <<"Literal", "String", "Double">>, <<"Literal", "String", "Backtick">>,
     <<"Literal", "Number">>, <<"Literal", "Number", "Integer">>,
     <<"Literal", "Number", "Float">>, <<"Literal", "Number", "Hex">>}

_ID_PLACEHOLDER == <<"I", "D">>
_LIT_PLACEHOLDER == <<"L", "I", "T">>

\* "ttype is parent or ttype in parent" for some parent of the set: ttype in
\* parent holds when parent is a prefix of ttype
_is_subtype(ttype, parent_set) ==
    \E n \in 1..Len(ttype) : SubSeq(ttype, 1, n) \in parent_set

\* value.count("\n")
CountNewlines(value) == Cardinality({i \in DOMAIN value : value[i] = "\n"})

\* len(value.rsplit("\n", 1)[-1])
LenAfterLastNewline(value) ==
    LET nl == {i \in DOMAIN value : value[i] = "\n"}
    IN  IF nl = {} THEN Len(value)
        ELSE Len(value) - (CHOOSE i \in nl : \A j \in nl : j <= i)

\* mutant: after a newline the column goes on from the old column
AdvancePositionKeepsColumn(line, col, value, newlines) ==
    IF newlines # 0 THEN <<line + newlines, col + LenAfterLastNewline(value)>>
    ELSE <<line, col + Len(value)>>

\* <<line, col>> after consuming value
_advance_position(line, col, value, newlines) ==
    IF newlines # 0 THEN <<line + newlines, LenAfterLastNewline(value)>>
    ELSE <<line, col + Len(value)>>

_normalize_value(ttype, value, level) ==
    IF level >= IDENTIFIERS /\ _is_subtype(ttype, _IDENTIFIER_TYPES)
    THEN _ID_PLACEHOLDER
    ELSE IF level >= LITERALS /\ _is_subtype(ttype, _LITERAL_TYPES)
    THEN _LIT_PLACEHOLDER
    ELSE value

RECURSIVE TokenizeLoop(_, _, _, _, _)
TokenizeLoop(lexemes, level, line, col, tokens) ==
    IF lexemes = <<>> THEN tokens
    ELSE LET ttype == Head(lexemes)[1]
             value == Head(lexemes)[2]
             newlines == CountNewlines(value)
             pos == _advance_position(line, col, value, newlines)
         IN  TokenizeLoop(Tail(lexemes), level, pos[1], pos[2],
                          IF ~ _is_subtype(ttype, _SKIP_TYPES)
                          THEN Append(tokens,
                                      Token(_normalize_value(ttype, value, level),
                                            line, col))
                          ELSE tokens)

\* tokenize(source, filename, level) given the lexemes lex(source, lexer) yields
tokenize(lexemes, level) == TokenizeLoop(lexemes, level, 1, 0, <<>>)

---------------------------------------------------------------------------
(* pipeline.py: the scan driver *)

\* defaults of find_clones(min_token_count) and
\* aggregate_clone_matches(min_group_tokens), which scan does not override
DefaultMinTokenCount == 10
DefaultMinGroupTokens == 10

\* the text of a file: the concatenation of the values of its lexemes
SourceText(lexemes) == Flatten([i \in 1..Len(lexemes) |-> lexemes[i][2]])

\* _read_file_str over the scanned files [path, source], source a lexeme
\* stream or None
ReadFileStr(files) ==
    [p \in {files[i].path : i \in DOMAIN files} |->
        LET f == files[CHOOSE i \in DOMAIN files : files[i].path = p]
        IN  IF f.source.ok THEN Some(SourceText(f.source.text)) ELSE None]

\* the per-file loop of scan
RECURSIVE ScanLoop(_, _, _)
ScanLoop(files, config, idx) ==
    IF files = <<>> THEN idx
    ELSE LET source == Head(files).source
             tokens == tokenize(source.text, config.normalize)
         IN  IF ~ source.ok THEN ScanLoop(Tail(files), config, idx)
             ELSE IF Len(tokens) < config.min_tokens
             THEN ScanLoop(Tail(files), config, idx)
             ELSE ScanLoop(Tail(files), config,
                           add(idx, Head(files).path,
                               build_hash_tree(hash_lines(tokens))))

\* hasattr(obj, name) for an object given as the record of its attributes
HasAttr(obj, name) == name \in DOMAIN obj

\* scan(config, paths) over the files discover_files returns for paths: the
\* exception raised ("" if none), the reports returned and, for reference,
\* the reports aggregate_clone_matches returned
scan(config, files) ==
    LET idx == ScanLoop(files, config, <<>>)
        found == find_clones(idx, DefaultMinTokenCount)
        \* lines 53-55, reached with the aggregator's reports
        suppressed(aggregated) ==
            IF ~ HasAttr(config, "suppress_patterns")
            THEN [raised |-> "AttributeError", reports |-> <<>>,
                  aggregated |-> aggregated]
            ELSE [raised |-> "",
                  reports |-> IF config.suppress_patterns # <<>>
                              THEN filter_reports(aggregated,
                                                  config.suppress_patterns,
                                                  ReadFileStr(files)).reports
                              ELSE aggregated,
                  aggregated |-> aggregated]
    IN  CHOOSE r \in {suppressed(aggregated) :
                         aggregated \in {aggregate_clone_matches(
                                             found, DefaultMinGroupTokens)}} : TRUE

---------------------------------------------------------------------------
(* Spec: the components driven as the tests and the driver drive them:     *)
(* hash_lines, build_hash_tree and add per file, then find_clones, then    *)
(* aggregate_clone_matches.                                                *)

MaxLines == 3

\* the token values of one source line; <<>> is a line without tokens
LineKinds == {<<>>, << <<"x">> >>, << <<"y">> >>}

MinTokenCounts == {1, 2}
MinGroupTokens == {1, 2, 3}

Paths == {<<"a">>, <<"b">>}

\* tokens as the tokeniser emits them for the given lines, line numbers from 1
TokensOfLines(lines) ==
    Flatten([i \in 1..Len(lines) |->
                [j \in 1..Len(lines[i]) |->
                    [value |-> lines[i][j], line |-> i, column |-> 2 * (j - 1)]]])

TokenSeqs ==
    {TokensOfLines(ls) : ls \in UNION {[1..n -> LineKinds] : n \in 1..MaxLines}}

Corpora ==
    {<<[path |-> p, tokens |-> t]>> : p \in Paths, t \in TokenSeqs}
    \cup {<<[path |-> pq[1], tokens |-> t], [path |-> pq[2], tokens |-> u]>> :
            pq \in {x \in Paths \X Paths : x[1] # x[2]},
            t \in TokenSeqs, u \in TokenSeqs}

Init ==
    /\ corpus \in Corpora
    /\ hashed = <<>>
    /\ trees = <<>>
    /\ indexed = <<>>
    /\ index = <<>>
    /\ pc = "load"
    /\ min_token_count = 0
    /\ matches = <<>>
    /\ min_group_tokens = 0
    /\ reports = <<>>
    /\ scan_files = <<>>
    /\ scan_min_tokens = 0
    /\ scanned = {}
    /\ scan_reports = <<>>
    /\ scan_suppress = <<>>
    /\ scan_raised = <<>>
    /\ scan_aggregated = <<>>
    /\ file_texts = <<>>
    /\ suppress = <<>>
    /\ filter_input = <<>>
    /\ filter_calls = <<>>
    /\ stage_calls = <<>>
    /\ stage_ctx = <<>>
    /\ stage_reports = <<>>
    /\ stage_trace = <<>>
    /\ merged = <<>>
    /\ rearranged = <<>>

\* line_hashes = hash_lines(tokens) for the next file
HashLines ==
    /\ pc = "load"
    /\ Len(hashed) < Len(corpus)
    /\ Len(hashed) = Len(indexed)
    /\ hashed' = Append(hashed, hash_lines(corpus[Len(hashed) + 1].tokens))
    /\ UNCHANGED <<corpus, trees, indexed, index, pc, min_token_count, matches,
                   min_group_tokens, reports>>
    /\ UNCHANGED <<scanVars, filterVars, stageVars, orderVars>>

\* tree = build_hash_tree(line_hashes) for the file just hashed
BuildTree ==
    /\ pc = "load"
    /\ Len(trees) < Len(hashed)
    /\ trees' = Append(trees, build_hash_tree(hashed[Len(trees) + 1]))
    /\ UNCHANGED <<corpus, hashed, indexed, index, pc, min_token_count, matches,
                   min_group_tokens, reports>>
    /\ UNCHANGED <<scanVars, filterVars, stageVars, orderVars>>

\* index.add(path, tree) for the file whose tree was just built
Add ==
    /\ pc = "load"
    /\ Len(indexed) < Len(trees)
    /\ LET k == Len(indexed) + 1
       IN  /\ index' = add(index, corpus[k].path, trees[k])
           /\ indexed' = Append(indexed, [path |-> corpus[k].path, tree |-> trees[k]])
    /\ UNCHANGED <<corpus, hashed, trees, pc, min_token_count, matches,
                   min_group_tokens, reports>>
    /\ UNCHANGED <<scanVars, filterVars, stageVars, orderVars>>

\* matches = index.find_clones(min_token_count=m), once every file is added
FindClones ==
    /\ pc = "load"
    /\ Len(indexed) = Len(corpus)
    /\ \E m \in MinTokenCounts :
          /\ min_token_count' = m
          /\ matches' = find_clones(index, m)
    /\ pc' = "found"
    /\ UNCHANGED <<corpus, hashed, trees, indexed, index, min_group_tokens, reports>>
    /\ UNCHANGED <<scanVars, filterVars, stageVars, orderVars>>

\* reports = aggregate_clone_matches(matches, min_group_tokens=g)
Aggregate ==
    /\ pc = "found"
    /\ \E g \in MinGroupTokens :
          /\ min_group_tokens' = g
          /\ reports' = aggregate_clone_matches(matches, g)
    /\ pc' = "aggregated"
    /\ UNCHANGED <<corpus, hashed, trees, indexed, index, min_token_count, matches>>
    /\ UNCHANGED <<scanVars, filterVars, stageVars, orderVars>>

Next == HashLines \/ BuildTree \/ Add \/ FindClones \/ Aggregate

Spec == Init /\ [][Next]_vars

---------------------------------------------------------------------------
(* SpecIndex: LineHashIndex driven with arbitrary trees, one add per file, *)
(* then find_clones.  Hash values are plain integers, so nodes of          *)
(* different lines and levels may share one.                               *)

BulkSize == 98

IndexMinTokenCounts == {3, 10}

Node(hash_value, start_line, end_line, level, token_count) ==
    [hash_value |-> hash_value, start_line |-> start_line, end_line |-> end_line,
     level |-> level, token_count |-> token_count]

\* leaves of line 1 and of line 2, and level-1 nodes over lines 1..2
Leaves1 == {Node(h, 1, 1, 0, t) : h \in {1, 2}, t \in {3, 12}}
Leaves2 == {Node(h, 2, 2, 0, t) : h \in {1, 2}, t \in {3, 12}}
Pairs12 == {Node(h, 1, 2, 1, t) : h \in {1, 2}, t \in {3, 12}}

SmallTrees ==
    {<< <<n>> >> : n \in Leaves1 \cup Leaves2 \cup Pairs12}
    \cup {<< <<n, k>> >> : n \in Leaves1, k \in Leaves2}
    \cup {<< <<n>>, <<k>> >> : n \in Leaves1, k \in Pairs12}

\* a file of n one-token lines that all hash to 1 (a noise line such as "}")
BulkTree(n) == << [i \in 1..n |-> Node(1, i, i, 0, 1)] >>

\* one-node trees of a third small file (test_three_files_pairwise)
SingleNodeTrees == {<< <<n>> >> : n \in Leaves1}

TreesOf(path) ==
    IF path = <<"n">>
    THEN {BulkTree(BulkSize), BulkTree(BulkSize + 1)} \cup SingleNodeTrees
    ELSE SmallTrees

IndexPaths == {<<"a">>, <<"b">>, <<"n">>}

InitIndex ==
    /\ corpus = <<>>
    /\ hashed = <<>>
    /\ trees = <<>>
    /\ indexed = <<>>
    /\ index = <<>>
    /\ pc = "load"
    /\ min_token_count = 0
    /\ matches = <<>>
    /\ min_group_tokens = 0
    /\ reports = <<>>
    /\ scan_files = <<>>
    /\ scan_min_tokens = 0
    /\ scanned = {}
    /\ scan_reports = <<>>
    /\ scan_suppress = <<>>
    /\ scan_raised = <<>>
    /\ scan_aggregated = <<>>
    /\ file_texts = <<>>
    /\ suppress = <<>>
    /\ filter_input = <<>>
    /\ filter_calls = <<>>
    /\ stage_calls = <<>>
    /\ stage_ctx = <<>>
    /\ stage_reports = <<>>
    /\ stage_trace = <<>>
    /\ merged = <<>>
    /\ rearranged = <<>>

\* index.add(path, tree) with a tree the caller built
AddTree ==
    /\ pc = "load"
    /\ \E path \in IndexPaths \ {indexed[i].path : i \in DOMAIN indexed} :
          \E tree \in TreesOf(path) :
             /\ index' = add(index, path, tree)
             /\ indexed' = Append(indexed, [path |-> path, tree |-> tree])
    /\ UNCHANGED <<corpus, hashed, trees, pc, min_token_count, matches,
                   min_group_tokens, reports>>
    /\ UNCHANGED <<scanVars, filterVars, stageVars, orderVars>>

\* matches = index.find_clones(min_token_count=m)
FindClonesIndex ==
    /\ pc = "load"
    /\ \E m \in IndexMinTokenCounts :
          /\ min_token_count' = m
          /\ matches' = find_clones(index, m)
    /\ pc' = "found"
    /\ UNCHANGED <<corpus, hashed, trees, indexed, index, min_group_tokens, reports>>
    /\ UNCHANGED <<scanVars, filterVars, stageVars, orderVars>>

NextIndex == AddTree \/ FindClonesIndex

SpecIndex == InitIndex /\ [][NextIndex]_vars

---------------------------------------------------------------------------
(* SpecScan: one corpus scanned at each normalisation level with           *)
(* otherwise identical configuration.  A source line is the call           *)
(* f(v,v,v,n): ten tokens, the default thresholds of find_clones and       *)
(* aggregate_clone_matches, followed by its newline.                       *)

MaxScanLines == 4

\* Config(min_tokens=..., normalize=...): the fields of the dataclass
Config(min_tokens, normalize) ==
    [min_tokens |-> min_tokens, normalize |-> normalize,
     output_format |-> "human", ignore_patterns |-> <<>>, languages |-> <<>>]

\* the default of Config.suppress_patterns
NoSuppressPatterns == <<>>

\* the configuration with the field suppress_patterns that scan reads
SuppressingConfig(min_tokens, normalize, suppress_patterns) ==
    Config(min_tokens, normalize) @@ [suppress_patterns |-> suppress_patterns]

\* Config as the dataclass declares it, and the configuration with
\* suppress_patterns at its default and at ("*y*",)
DefaultSuppress == [present |-> TRUE, patterns |-> NoSuppressPatterns]

ScanSuppress ==
    {[present |-> FALSE, patterns |-> <<>>],
     DefaultSuppress,
     [present |-> TRUE, patterns |-> << <<"*", "y", "*">> >>]}

\* the config object of one scan
ScanConfig(level) ==
    IF scan_suppress.present
    THEN SuppressingConfig(scan_min_tokens, level, scan_suppress.patterns)
    ELSE Config(scan_min_tokens, level)

ScanMinTokens == {30}

Name(v) == << <<"Name">>, <<v>> >>
Punctuation(v) == << <<"Punctuation">>, <<v>> >>
Integer(v) == << <<"Literal", "Number", "Integer">>, <<v>> >>
Newline == << <<"Text", "Whitespace">>, <<"\n">> >>

\* the lexemes of the line f(v,v,v,n)
CallLine(v, n) ==
    <<Name("f"), Punctuation("("), Name(v), Punctuation(","), Name(v),
      Punctuation(","), Name(v), Punctuation(","), Integer(n), Punctuation(")"),
      Newline>>

\* the two line kinds of one corpus differ in an identifier or in a literal
LineAlphabets ==
    {{CallLine("x", "1"), CallLine("y", "1")},
     {CallLine("x", "1"), CallLine("x", "2")}}

LineSeqs(alphabet) == UNION {[1..n -> alphabet] : n \in 1..MaxScanLines}

\* a copy of the lines with at most one line replaced
Edits(lines, alphabet) ==
    {lines} \cup {[lines EXCEPT ![k] = l] : k \in DOMAIN lines, l \in alphabet}

\* discover_files returns sorted(set(collected)): each path once, ascending;
\* file b is a copy of file a with at most one line edited
ScanCorpora ==
    UNION {UNION {{<<[path |-> <<"a">>, source |-> Some(Flatten(ls))],
                    [path |-> <<"b">>, source |-> Some(Flatten(e))]>> :
                        e \in Edits(ls, al)} :
                  ls \in LineSeqs(al)} :
           al \in LineAlphabets}

\* the corpora scanned with every configuration, not only the default one:
\* file a is MaxScanLines lines f(x,x,x,1)
SuppressCorpora ==
    {c \in ScanCorpora :
        c[1].source.text = Flatten([i \in 1..MaxScanLines |-> CallLine("x", "1")])}

InitScan ==
    /\ corpus = <<>>
    /\ hashed = <<>>
    /\ trees = <<>>
    /\ indexed = <<>>
    /\ index = <<>>
    /\ pc = "load"
    /\ min_token_count = 0
    /\ matches = <<>>
    /\ min_group_tokens = 0
    /\ reports = <<>>
    /\ scan_files \in ScanCorpora
    /\ scan_min_tokens \in ScanMinTokens
    /\ scanned = {}
    /\ scan_reports = [level \in NormalizationLevel |-> <<>>]
    /\ scan_suppress \in ScanSuppress
    /\ scan_suppress = DefaultSuppress \/ scan_files \in SuppressCorpora
    /\ scan_raised = [level \in NormalizationLevel |-> ""]
    /\ scan_aggregated = [level \in NormalizationLevel |-> <<>>]
    /\ file_texts = <<>>
    /\ suppress = <<>>
    /\ filter_input = <<>>
    /\ filter_calls = <<>>
    /\ stage_calls = <<>>
    /\ stage_ctx = <<>>
    /\ stage_reports = <<>>
    /\ stage_trace = <<>>
    /\ merged = <<>>
    /\ rearranged = <<>>

\* scan(config, paths) with config.normalize = level, level by level from
\* EXACT up
Scan ==
    /\ \E level \in NormalizationLevel \ scanned :
          /\ \A lower \in NormalizationLevel : lower < level => lower \in scanned
          /\ scanned' = scanned \cup {level}
          /\ \E r \in {scan(ScanConfig(level), scan_files)} :
                 /\ scan_reports' = [scan_reports EXCEPT ![level] = r.reports]
                 /\ scan_raised' = [scan_raised EXCEPT ![level] = r.raised]
                 /\ scan_aggregated' =
                        [scan_aggregated EXCEPT ![level] = r.aggregated]
    /\ UNCHANGED <<scan_files, scan_min_tokens, scan_suppress>>
    /\ UNCHANGED <<engineVars, filterVars, stageVars, orderVars>>

NextScan == Scan

SpecScan == InitScan /\ [][NextScan]_vars

---------------------------------------------------------------------------
(* SpecFilter: filter_reports called on a list of reports and called      *)
(* again on its own result, with the same patterns and read function, and *)
(* run_filters called with no stage.                                       *)

MaxFilterLine == 2

FilterPaths == {<<"a">>, <<"b">>, <<"c">>}

\* " @" above "d" (a decorated definition), and two plain lines
DecoratedText == <<" ", "@", "\n", "d", "\n">>
PlainText == <<"d", "\n", "d", "\n">>

ReadFns == [FilterPaths -> {None, Some(DecoratedText), Some(PlainText)}]

PatternTuples ==
    {<<>>,
     << <<"*", "@", "*">> >>,
     << <<"d">> >>,
     << <<"d", "?">>, <<"?", "@">> >>}

\* a group of lines s..e of the first file and t..u of the second
GroupAt(file_a, file_b, s, e, t, u) ==
    CloneGroup(file_a, <<s, e>>, file_b, <<t, u>>, e - s + 1, 10 * (e - s + 1))

\* the group lists of one report of a file pair
GroupLists(file_a, file_b) ==
    {<<GroupAt(file_a, file_b, s, s, s, s)>> : s \in 1..MaxFilterLine}
    \cup {<<GroupAt(file_a, file_b, 1, MaxFilterLine, 1, MaxFilterLine)>>,
          <<GroupAt(file_a, file_b, 1, 1, MaxFilterLine, MaxFilterLine)>>,
          <<GroupAt(file_a, file_b, 1, 1, 1, 1),
            GroupAt(file_a, file_b, MaxFilterLine, MaxFilterLine,
                    MaxFilterLine, MaxFilterLine)>>}

\* no report, or one report, of a file pair
ReportsOf(file_a, file_b) ==
    {<<>>} \cup {<<CloneReport(file_a, file_b, gs, SumLineCount(gs))>> :
                    gs \in GroupLists(file_a, file_b)}

\* report lists as aggregate_clone_matches returns them: ascending pairs
FilterInputs ==
    {ab \o ac \o bc : ab \in ReportsOf(<<"a">>, <<"b">>),
                      ac \in ReportsOf(<<"a">>, <<"c">>),
                      bc \in ReportsOf(<<"b">>, <<"c">>)}

InitFilter ==
    /\ corpus = <<>>
    /\ hashed = <<>>
    /\ trees = <<>>
    /\ indexed = <<>>
    /\ index = <<>>
    /\ pc = "load"
    /\ min_token_count = 0
    /\ matches = <<>>
    /\ min_group_tokens = 0
    /\ reports = <<>>
    /\ scan_files = <<>>
    /\ scan_min_tokens = 0
    /\ scanned = {}
    /\ scan_reports = <<>>
    /\ scan_suppress = <<>>
    /\ scan_raised = <<>>
    /\ scan_aggregated = <<>>
    /\ file_texts \in ReadFns
    /\ suppress \in PatternTuples
    /\ filter_input \in FilterInputs
    /\ filter_calls = <<>>
    /\ stage_calls = <<>>
    /\ stage_ctx = <<>>
    /\ stage_reports = <<>>
    /\ stage_trace = <<>>
    /\ merged = <<>>
    /\ rearranged = <<>>

FilterCall(input) ==
    LET r == filter_reports(input, suppress, file_texts)
    IN  [input |-> input, result |-> r.reports, reads |-> r.reads]

\* result = filter_reports(reports, suppress_patterns, read_fn)
FilterReports ==
    /\ filter_calls = <<>>
    /\ filter_calls' = <<FilterCall(filter_input)>>
    /\ UNCHANGED <<file_texts, suppress, filter_input, stage_calls>>
    /\ UNCHANGED <<engineVars, scanVars, stageVars, orderVars>>

\* filter_reports(result, suppress_patterns, read_fn) on the first result
FilterReportsAgain ==
    /\ Len(filter_calls) = 1
    /\ filter_calls' = Append(filter_calls, FilterCall(filter_calls[1].result))
    /\ UNCHANGED <<file_texts, suppress, filter_input, stage_calls>>
    /\ UNCHANGED <<engineVars, scanVars, stageVars, orderVars>>

\* run_filters(reports, [], read_fn)
RunFiltersNoStage ==
    /\ stage_calls = <<>>
    /\ LET r == run_filters(filter_input, <<>>, file_texts)
       IN  stage_calls' = <<[input |-> filter_input, result |-> r.reports,
                             reads |-> r.reads]>>
    /\ UNCHANGED <<file_texts, suppress, filter_input, filter_calls>>
    /\ UNCHANGED <<engineVars, scanVars, stageVars, orderVars>>

NextFilter == FilterReports \/ FilterReportsAgain \/ RunFiltersNoStage

SpecFilter == InitFilter /\ [][NextFilter]_vars

---------------------------------------------------------------------------
(* SpecStages: the stages called one at a time on a FilterContext whose   *)
(* suppressed-locations set the caller may have set by hand, as           *)
(* test_filter.py's TestPatternMatchStageIsolation and                    *)
(* TestSiblingStageIsolation do, and filter_reports called on the same    *)
(* reports; the inputs are the reports of SpecFilter, with totals that    *)
(* may differ from their groups' line counts, and the three reports of    *)
(* the abstract-method scenario over the test's FILES.                    *)

AbcPy == <<"a", "b", "c", ".", "p", "y">>
ImplAPy == <<"i", "m", "p", "l", "_", "a", ".", "p", "y">>
ImplBPy == <<"i", "m", "p", "l", "_", "b", ".", "p", "y">>

AbcPySource ==
    <<"f", "r", "o", "m", " ", "a", "b", "c", " ", "i", "m", "p", "o", "r",
      "t", " ", "A", "B", "C", ",", " ", "a", "b", "s", "t", "r", "a", "c",
      "t", "m", "e", "t", "h", "o", "d", "\n", "\n", "c", "l", "a", "s",
      "s", " ", "A", "n", "i", "m", "a", "l", "(", "A", "B", "C", ")", ":",
      "\n", " ", " ", " ", " ", "@", "a", "b", "s", "t", "r", "a", "c",
      "t", "m", "e", "t", "h", "o", "d", "\n", " ", " ", " ", " ", "d",
      "e", "f", " ", "s", "p", "e", "a", "k", "(", "s", "e", "l", "f", ")",
      ":", "\n", " ", " ", " ", " ", " ", " ", " ", " ", "r", "a", "i",
      "s", "e", " ", "N", "o", "t", "I", "m", "p", "l", "e", "m", "e", "n",
      "t", "e", "d", "E", "r", "r", "o", "r", "\n">>

ImplAPySource ==
    <<"f", "r", "o", "m", " ", "a", "n", "i", "m", "a", "l", "s", " ", "i",
      "m", "p", "o", "r", "t", " ", "A", "n", "i", "m", "a", "l", "\n",
      "\n", "c", "l", "a", "s", "s", " ", "D", "o", "g", "(", "A", "n",
      "i", "m", "a", "l", ")", ":", "\n", " ", " ", " ", " ", "d", "e",
      "f", " ", "s", "p", "e", "a", "k", "(", "s", "e", "l", "f", ")", ":",
      "\n", " ", " ", " ", " ", " ", " ", " ", " ", "r", "e", "t", "u",
      "r", "n", " ", "'", "w", "o", "o", "f", "'", "\n">>

ImplBPySource ==
    <<"f", "r", "o", "m", " ", "a", "n", "i", "m", "a", "l", "s", " ", "i",
      "m", "p", "o", "r", "t", " ", "A", "n", "i", "m", "a", "l", "\n",
      "\n", "c", "l", "a", "s", "s", " ", "C", "a", "t", "(", "A", "n",
      "i", "m", "a", "l", ")", ":", "\n", " ", " ", " ", " ", "d", "e",
      "f", " ", "s", "p", "e", "a", "k", "(", "s", "e", "l", "f", ")", ":",
      "\n", " ", " ", " ", " ", " ", " ", " ", " ", "r", "e", "t", "u",
      "r", "n", " ", "'", "m", "e", "o", "w", "'", "\n">>

AbstractMethodPattern ==
    <<"*", "@", "a", "b", "s", "t", "r", "a", "c", "t", "m", "e", "t", "h",
      "o", "d", "*">>

\* FILES.get(path) over the three files of the scenario
ScenarioRead ==
    (AbcPy :> Some(AbcPySource)) @@ (ImplAPy :> Some(ImplAPySource))
        @@ (ImplBPy :> Some(ImplBPySource))

\* _make_report([_make_group(...)]) for one line of each file
SingleLineReport(file_a, line_a, file_b, line_b) ==
    LET g == CloneGroup(file_a, <<line_a, line_a>>, file_b, <<line_b, line_b>>,
                        1, 10)
    IN  CloneReport(file_a, file_b, <<g>>, SumLineCount(<<g>>))

\* abc.py:5 against each implementation's line 4, and the two
\* implementations against each other
ScenarioReports ==
    <<SingleLineReport(AbcPy, 5, ImplAPy, 4),
      SingleLineReport(AbcPy, 5, ImplBPy, 4),
      SingleLineReport(ImplAPy, 4, ImplBPy, 4)>>

\* the statement two lines below the decorator of abc.py against the body
\* line of an implementation
BodyReports == <<SingleLineReport(AbcPy, 6, ImplAPy, 5)>>

\* read functions: a is absent or decorated, b is absent or plain
StageReadFns ==
    {f \in ReadFns : /\ f[<<"a">>] # Some(PlainText)
                     /\ f[<<"b">>] # Some(DecoratedText)
                     /\ f[<<"c">>] = Some(PlainText)}

\* the reports with every total_cloned_lines off by d
WithTotalOff(reps, d) ==
    [i \in DOMAIN reps |-> [reps[i] EXCEPT !.total_cloned_lines = @ + d]]

\* a report whose second group lies within the lines of its first group
\* and shares no line with the ends of those lines
ChainedReport(file_a, file_b) ==
    LET gs == <<GroupAt(file_a, file_b, 1, MaxFilterLine, 1, MaxFilterLine),
                GroupAt(file_a, file_b, MaxFilterLine, MaxFilterLine, 1, 1)>>
    IN  CloneReport(file_a, file_b, gs, SumLineCount(gs))

StageInputs ==
    {WithTotalOff(ab \o ac \o bc, d) :
        ab \in ReportsOf(<<"a">>, <<"b">>) \cup {<<ChainedReport(<<"a">>, <<"b">>)>>},
        ac \in {<<>>, <<CloneReport(<<"a">>, <<"c">>,
                                    <<GroupAt(<<"a">>, <<"c">>, 1, 1, 1, 1)>>, 1)>>},
        bc \in ReportsOf(<<"b">>, <<"c">>),
        d \in {0, 1}}

\* the sets a caller assigns to ctx.suppressed_locations before a call
StageLocationSets ==
    {{},
     {<<<<"a">>, <<1, 1>>>>},
     {<<<<"a">>, <<1, 1>>>>, <<<<"b">>, <<MaxFilterLine, MaxFilterLine>>>>},
     {<<<<"b">>, <<1, MaxFilterLine>>>>, <<<<"c">>, <<1, 1>>>>}}

InitStages ==
    /\ corpus = <<>>
    /\ hashed = <<>>
    /\ trees = <<>>
    /\ indexed = <<>>
    /\ index = <<>>
    /\ pc = "load"
    /\ min_token_count = 0
    /\ matches = <<>>
    /\ min_group_tokens = 0
    /\ reports = <<>>
    /\ scan_files = <<>>
    /\ scan_min_tokens = 0
    /\ scanned = {}
    /\ scan_reports = <<>>
    /\ scan_suppress = <<>>
    /\ scan_raised = <<>>
    /\ scan_aggregated = <<>>
    /\ filter_calls = <<>>
    /\ stage_calls = <<>>
    /\ \/ /\ file_texts \in StageReadFns
          /\ suppress \in PatternTuples \ {<<>>}
          /\ filter_input \in StageInputs
          /\ \E locs \in StageLocationSets :
                stage_ctx = [FilterContext(file_texts)
                                EXCEPT !.suppressed_locations = locs]
       \/ /\ file_texts = ScenarioRead
          /\ suppress = <<AbstractMethodPattern>>
          /\ filter_input \in {ScenarioReports, BodyReports}
          /\ stage_ctx = FilterContext(file_texts)
    /\ stage_reports = filter_input
    /\ stage_trace = <<>>
    /\ merged = <<>>
    /\ rearranged = <<>>

\* the record of one call: the reports and ctx it received and left
StageCall(stage, r) ==
    [stage |-> stage, input |-> stage_reports, output |-> r.reports,
     before |-> stage_ctx, after |-> r.ctx]

\* reports = PatternMatchStage(patterns)(reports, ctx)
CallPatternMatchStage ==
    /\ stage_trace = <<>>
    /\ LET r == PatternMatchStage(suppress, stage_reports, stage_ctx)
       IN  /\ stage_reports' = r.reports
           /\ stage_ctx' = r.ctx
           /\ stage_trace' = Append(stage_trace, StageCall("PatternMatchStage", r))
    /\ UNCHANGED <<engineVars, scanVars, filterVars, orderVars>>

\* reports = SiblingStage()(reports, ctx), on the caller's reports or on
\* those PatternMatchStage returned
CallSiblingStage ==
    /\ \/ stage_trace = <<>>
       \/ /\ Len(stage_trace) = 1
          /\ stage_trace[1].stage = "PatternMatchStage"
    /\ LET r == SiblingStage(stage_reports, stage_ctx)
       IN  /\ stage_reports' = r.reports
           /\ stage_ctx' = r.ctx
           /\ stage_trace' = Append(stage_trace, StageCall("SiblingStage", r))
    /\ UNCHANGED <<engineVars, scanVars, filterVars, orderVars>>

\* reports = filter_reports(reports, suppress_patterns, read_fn), which runs
\* its stages on a FilterContext of its own
CallFilterReports ==
    /\ stage_trace = <<>>
    /\ LET r == filter_reports(stage_reports, suppress, file_texts)
       IN  /\ stage_reports' = r.reports
           /\ stage_trace' = <<StageCall("filter_reports",
                                         [reports |-> r.reports, ctx |-> stage_ctx])>>
    /\ UNCHANGED stage_ctx
    /\ UNCHANGED <<engineVars, scanVars, filterVars, orderVars>>

\* the reports in another order, the groups of each in the same or in
\* reverse order
Rearranged(reps) ==
    {[i \in DOMAIN reps |->
        [reps[f[i]] EXCEPT !.groups =
            IF rev THEN [j \in DOMAIN @ |-> @[Len(@) + 1 - j]] ELSE @]] :
        f \in {h \in [DOMAIN reps -> DOMAIN reps] :
                  \A i \in DOMAIN reps : \E j \in DOMAIN reps : h[j] = i},
        rev \in BOOLEAN}

\* filter_reports called once more on the caller's reports in another order
CallFilterReportsRearranged ==
    /\ Len(stage_trace) = 1
    /\ stage_trace[1].stage = "filter_reports"
    /\ \E reps \in Rearranged(filter_input) \ {filter_input} :
          \E r \in {filter_reports(reps, suppress, file_texts)} :
             /\ stage_reports' = r.reports
             /\ stage_trace' = Append(stage_trace,
                                      [stage |-> "filter_reports", input |-> reps,
                                       output |-> r.reports, before |-> stage_ctx,
                                       after |-> stage_ctx])
    /\ UNCHANGED stage_ctx
    /\ UNCHANGED <<engineVars, scanVars, filterVars, orderVars>>

NextStages ==
    \/ CallPatternMatchStage
    \/ CallSiblingStage
    \/ CallFilterReports
    \/ CallFilterReportsRearranged

SpecStages == InitStages /\ [][NextStages]_vars

---------------------------------------------------------------------------
(* SpecAggregate: aggregate_clone_matches called on match lists built by  *)
(* hand, as test_reporter.py builds them with _match: a run of level-0    *)
(* matches of a against b, and optionally a match of b against a, a match *)
(* inside each file and a higher-level match of a against b.              *)

MaxMatchLine == 3

\* test_reporter.py's _match: a match of two one-line nodes
_match(file_a, start_a, file_b, start_b, hash_value, level, tokens) ==
    CloneMatch(NodeLocation(file_a, Node(hash_value, start_a, start_a, level, tokens)),
               NodeLocation(file_b, Node(hash_value, start_b, start_b, level, tokens)),
               level, hash_value)

\* the level-0 matches a+i <-> b+i of n consecutive lines, in line order
Run(a, b, n, tokens) ==
    [i \in 1..n |-> _match(<<"a">>, a + i - 1, <<"b">>, b + i - 1, 1, 0, tokens)]

Runs(tokens) ==
    {Run(abn[1], abn[2], abn[3], tokens) :
        abn \in {x \in (1..MaxMatchLine) \X (1..MaxMatchLine) \X (1..MaxMatchLine) :
                    /\ x[1] + x[3] - 1 <= MaxMatchLine
                    /\ x[2] + x[3] - 1 <= MaxMatchLine}}

\* no match or the one match
Optional(m) == {<<>>, <<m>>}

Reversed(seq) == [i \in 1..Len(seq) |-> seq[Len(seq) + 1 - i]]

\* the lists built from matches of tokens tokens each; the match inside b
\* has one token more, the higher-level match one more than a run of two
\* lines
MatchListsOf(tokens) ==
    {run \o ba \o aa \o bb \o hi :
        run \in {<<>>} \cup Runs(tokens),
        ba \in {<<>>} \cup {<<_match(<<"b">>, i, <<"a">>, i, 1, 0, tokens)>> :
                                i \in 1..MaxMatchLine},
        aa \in Optional(_match(<<"a">>, 1, <<"a">>, 2, 1, 0, tokens)),
        bb \in Optional(_match(<<"b">>, 1, <<"b">>, 2, 1, 0, tokens + 1)),
        hi \in Optional(_match(<<"a">>, 1, <<"b">>, 1, 2, 1, 2 * tokens + 1))}

MatchLists ==
    UNION {MatchListsOf(t) \cup {Reversed(ms) : ms \in MatchListsOf(t)} :
              t \in {1, 2}}

InitAggregate ==
    /\ corpus = <<>>
    /\ hashed = <<>>
    /\ trees = <<>>
    /\ indexed = <<>>
    /\ index = <<>>
    /\ pc = "found"
    /\ min_token_count = 0
    /\ matches \in MatchLists
    /\ min_group_tokens = 0
    /\ reports = <<>>
    /\ scan_files = <<>>
    /\ scan_min_tokens = 0
    /\ scanned = {}
    /\ scan_reports = <<>>
    /\ scan_suppress = <<>>
    /\ scan_raised = <<>>
    /\ scan_aggregated = <<>>
    /\ file_texts = <<>>
    /\ suppress = <<>>
    /\ filter_input = <<>>
    /\ filter_calls = <<>>
    /\ stage_calls = <<>>
    /\ stage_ctx = <<>>
    /\ stage_reports = <<>>
    /\ stage_trace = <<>>
    /\ merged = <<>>
    /\ rearranged = <<>>

NextAggregate == Aggregate

SpecAggregate == InitAggregate /\ [][NextAggregate]_vars

---------------------------------------------------------------------------
(* SpecScenario: the identity scenario, two files of the same eight       *)
(* one-token lines, taken through hash_lines, build_hash_tree, add,       *)
(* find_clones and aggregate_clone_matches with thresholds from 1 up to   *)
(* the defaults.                                                          *)

\* the tokens a b c d e f g h, one per line
ScenarioLines ==
    << << <<"a">> >>, << <<"b">> >>, << <<"c">> >>, << <<"d">> >>,
       << <<"e">> >>, << <<"f">> >>, << <<"g">> >>, << <<"h">> >> >>

\* the two files, processed in either order
ScenarioCorpora ==
    {<<[path |-> pq[1], tokens |-> TokensOfLines(ScenarioLines)],
       [path |-> pq[2], tokens |-> TokensOfLines(ScenarioLines)]>> :
        pq \in {x \in Paths \X Paths : x[1] # x[2]}}

ScenarioMinTokenCounts == 1..DefaultMinTokenCount
ScenarioMinGroupTokens == 1..DefaultMinGroupTokens

InitScenario ==
    /\ corpus \in ScenarioCorpora
    /\ hashed = <<>>
    /\ trees = <<>>
    /\ indexed = <<>>
    /\ index = <<>>
    /\ pc = "load"
    /\ min_token_count = 0
    /\ matches = <<>>
    /\ min_group_tokens = 0
    /\ reports = <<>>
    /\ scan_files = <<>>
    /\ scan_min_tokens = 0
    /\ scanned = {}
    /\ scan_reports = <<>>
    /\ scan_suppress = <<>>
    /\ scan_raised = <<>>
    /\ scan_aggregated = <<>>
    /\ file_texts = <<>>
    /\ suppress = <<>>
    /\ filter_input = <<>>
    /\ filter_calls = <<>>
    /\ stage_calls = <<>>
    /\ stage_ctx = <<>>
    /\ stage_reports = <<>>
    /\ stage_trace = <<>>
    /\ merged = <<>>
    /\ rearranged = <<>>

\* matches = index.find_clones(min_token_count=m), 10 being the default
FindClonesScenario ==
    /\ pc = "load"
    /\ Len(indexed) = Len(corpus)
    /\ \E m \in ScenarioMinTokenCounts :
          /\ min_token_count' = m
          /\ matches' = find_clones(index, m)
    /\ pc' = "found"
    /\ UNCHANGED <<corpus, hashed, trees, indexed, index, min_group_tokens, reports>>
    /\ UNCHANGED <<scanVars, filterVars, stageVars, orderVars>>

\* reports = aggregate_clone_matches(matches, min_group_tokens=g), 10 being
\* the default
AggregateScenario ==
    /\ pc = "found"
    /\ \E g \in ScenarioMinGroupTokens :
          /\ min_group_tokens' = g
          /\ reports' = aggregate_clone_matches(matches, g)
    /\ pc' = "aggregated"
    /\ UNCHANGED <<corpus, hashed, trees, indexed, index, min_token_count, matches>>
    /\ UNCHANGED <<scanVars, filterVars, stageVars, orderVars>>

NextScenario ==
    HashLines \/ BuildTree \/ Add \/ FindClonesScenario \/ AggregateScenario

SpecScenario == InitScenario /\ [][NextScenario]_vars

---------------------------------------------------------------------------
(* SpecOrder: the aggregator on the matches of two files, a of the lines  *)
(* x, y and b of the lines x, y, x, y (x of one token, y of two): some of *)
(* the matches find_clones emits for them, then the same matches in       *)
(* another order.                                                         *)

MaxOrderMatches == 4

\* the leaf of a line: x on the odd lines, y on the even ones
OrderLeaf(line) ==
    IF line % 2 = 1 THEN Node(1, line, line, 0, 1) ELSE Node(2, line, line, 0, 2)

\* the level-1 node of the lines x, y that starts at line start
OrderPair(start) == Node(3, start, start + 1, 1, 3)

LeafMatch(file_a, line_a, file_b, line_b) ==
    CloneMatch(NodeLocation(file_a, OrderLeaf(line_a)),
               NodeLocation(file_b, OrderLeaf(line_b)), 0, OrderLeaf(line_a).hash_value)

PairMatch(file_a, start_a, file_b, start_b) ==
    CloneMatch(NodeLocation(file_a, OrderPair(start_a)),
               NodeLocation(file_b, OrderPair(start_b)), 1, OrderPair(start_a).hash_value)

\* the matches of a and b, bucket by bucket, a added first
OrderMatches ==
    <<LeafMatch(<<"a">>, 1, <<"b">>, 1), LeafMatch(<<"a">>, 1, <<"b">>, 3),
      LeafMatch(<<"b">>, 1, <<"b">>, 3),
      LeafMatch(<<"a">>, 2, <<"b">>, 2), LeafMatch(<<"a">>, 2, <<"b">>, 4),
      LeafMatch(<<"b">>, 2, <<"b">>, 4),
      PairMatch(<<"a">>, 1, <<"b">>, 1), PairMatch(<<"a">>, 1, <<"b">>, 3),
      PairMatch(<<"b">>, 1, <<"b">>, 3)>>

\* the same matches with b as the left side of the matches of the two
\* files, as find_clones emits them when b was added first
OrderMatchesBFirst ==
    [i \in DOMAIN OrderMatches |->
        LET m == OrderMatches[i]
        IN  IF m.left.file_path = m.right.file_path THEN m
            ELSE CloneMatch(m.right, m.left, m.level, m.shared_hash)]

\* the lists of at most MaxOrderMatches of the matches, in that order
OrderMatchLists ==
    {[i \in 1..Cardinality(S) |-> all[SortedLines(S)[i]]] :
        S \in {T \in SUBSET (1..Len(OrderMatches)) : Cardinality(T) <= MaxOrderMatches},
        all \in {OrderMatches, OrderMatchesBFirst}}

InitOrder ==
    /\ corpus = <<>>
    /\ hashed = <<>>
    /\ trees = <<>>
    /\ indexed = <<>>
    /\ index = <<>>
    /\ pc = "found"
    /\ min_token_count = 0
    /\ matches \in OrderMatchLists
    /\ min_group_tokens = 0
    /\ reports = <<>>
    /\ scan_files = <<>>
    /\ scan_min_tokens = 0
    /\ scanned = {}
    /\ scan_reports = <<>>
    /\ scan_suppress = <<>>
    /\ scan_raised = <<>>
    /\ scan_aggregated = <<>>
    /\ file_texts = <<>>
    /\ suppress = <<>>
    /\ filter_input = <<>>
    /\ filter_calls = <<>>
    /\ stage_calls = <<>>
    /\ stage_ctx = <<>>
    /\ stage_reports = <<>>
    /\ stage_trace = <<>>
    /\ merged = <<>>
    /\ rearranged = <<>>

\* _merge_consecutive_matches(level_0) called on its own, for the level-0
\* matches of one file pair as aggregate_clone_matches collects them in
\* by_pair
MergeConsecutive ==
    /\ pc = "found"
    /\ merged = <<>>
    /\ \E key \in {PairKey(matches[i]) : i \in DOMAIN matches} :
          \E level_0 \in {SelectSeq([i \in DOMAIN matches |-> Canonical(matches[i])],
                                    LAMBDA m : PairKey(m) = key /\ m.level = 0)} :
              merged' = <<[matches |-> level_0,
                           groups |-> _merge_consecutive_matches(level_0)]>>
    /\ pc' = "merged"
    /\ UNCHANGED <<corpus, hashed, trees, indexed, index, min_token_count, matches,
                   min_group_tokens, reports>>
    /\ UNCHANGED rearranged
    /\ UNCHANGED <<scanVars, filterVars, stageVars>>

\* the lists of the elements of seq in another order
Permuted(seq) ==
    {[i \in DOMAIN seq |-> seq[f[i]]] :
        f \in {h \in [DOMAIN seq -> DOMAIN seq] :
                  \A i \in DOMAIN seq : \E j \in DOMAIN seq : h[j] = i}} \ {seq}

\* aggregate_clone_matches called once more, on the same matches in
\* another order and with the same min_group_tokens
AggregateRearranged ==
    /\ pc = "aggregated"
    /\ rearranged = <<>>
    /\ \E ms \in Permuted(matches) :
          rearranged' = <<[matches |-> ms,
                           reports |-> aggregate_clone_matches(ms, min_group_tokens)]>>
    /\ UNCHANGED merged
    /\ UNCHANGED <<engineVars, scanVars, filterVars, stageVars>>

NextOrder == MergeConsecutive \/ Aggregate \/ AggregateRearranged

SpecOrder == InitOrder /\ [][NextOrder]_vars

---------------------------------------------------------------------------
(* Properties of the aggregator and the hash tree, checked under Spec *)

\* the number of lines of a closed range <<start, end>>
Span(range) == range[2] - range[1] + 1

RECURSIVE TotalLines(_)
TotalLines(groups) ==
    IF groups = <<>> THEN 0
    ELSE groups[1].line_count + TotalLines(Tail(groups))

\* (file_a, lines_a) of g is not after that of k
GroupKeyLeq(g, k) ==
    \/ StrLess(g.file_a, k.file_a)
    \/ /\ g.file_a = k.file_a
       /\ \/ g.lines_a[1] < k.lines_a[1]
          \/ (g.lines_a[1] = k.lines_a[1] /\ g.lines_a[2] <= k.lines_a[2])

\* both ranges of g lie inside the ranges of k (closed intervals)
Inside(g, k) ==
    /\ k.lines_a[1] <= g.lines_a[1] /\ g.lines_a[2] <= k.lines_a[2]
    /\ k.lines_b[1] <= g.lines_b[1] /\ g.lines_b[2] <= k.lines_b[2]

\* a match with the side of the smaller path on the left
Oriented(m) ==
    IF StrLeq(m.left.file_path, m.right.file_path)
    THEN [a |-> m.left, b |-> m.right]
    ELSE [a |-> m.right, b |-> m.left]

\* C1: every report returned by aggregate_clone_matches has file_a <= file_b in
\* string order, holds at least one group, every group carries the report's
\* file_a and file_b, the groups ascend by (file_a, lines_a), and
\* total_cloned_lines is the sum of the groups' line_count.
C1_ReportsWellFormed ==
    pc = "aggregated" =>
        \A i \in DOMAIN reports :
            LET r == reports[i]
            IN  /\ StrLeq(r.file_a, r.file_b)
                /\ Len(r.groups) >= 1
                /\ \A j \in DOMAIN r.groups :
                      r.groups[j].file_a = r.file_a /\ r.groups[j].file_b = r.file_b
                /\ \A j, k \in DOMAIN r.groups :
                      j < k => GroupKeyLeq(r.groups[j], r.groups[k])
                /\ r.total_cloned_lines = TotalLines(r.groups)

\* C1 witness: a report with several groups was aggregated from matches whose
\* left side is the larger path, so the sides had to be exchanged.
C1_Witness ==
    /\ pc = "aggregated"
    /\ \E i \in DOMAIN reports : Len(reports[i].groups) >= 2
    /\ \E k \in DOMAIN matches :
          StrLess(matches[k].right.file_path, matches[k].left.file_path)

\* C2: every group produced by aggregation has line_count equal to the span of
\* lines_a and the span of lines_b equal to line_count.
C2_GroupSidesSameSpan ==
    pc = "aggregated" =>
        \A i \in DOMAIN reports :
            \A j \in DOMAIN reports[i].groups :
                LET g == reports[i].groups[j]
                IN  /\ g.line_count = Span(g.lines_a)
                    /\ Span(g.lines_b) = g.line_count

\* C3: after aggregation no report holds two distinct groups one of which lies
\* inside the other on both sides, and the ranges of every higher-level match
\* that passes the token filter are still covered by a group of its report
\* (so of a coalesced group and a higher-level match over the same ranges
\* exactly one group remains).
C3_NoSubsumedGroupKept ==
    pc = "aggregated" =>
        /\ \A i \in DOMAIN reports :
              \A j, k \in DOMAIN reports[i].groups :
                  j # k => ~Inside(reports[i].groups[j], reports[i].groups[k])
        /\ \A n \in DOMAIN matches :
              LET o == Oriented(matches[n])
                  asGroup == [lines_a |-> <<o.a.node.start_line, o.a.node.end_line>>,
                              lines_b |-> <<o.b.node.start_line, o.b.node.end_line>>]
              IN  (matches[n].level > 0 /\ o.a.node.token_count >= min_group_tokens) =>
                      \E i \in DOMAIN reports :
                          /\ reports[i].file_a = o.a.file_path
                          /\ reports[i].file_b = o.b.file_path
                          /\ \E j \in DOMAIN reports[i].groups :
                                Inside(asGroup, reports[i].groups[j])

\* C3 witness: level-0 matches of lines 1 and 2 and a level-1 match over lines
\* 1..2 of the same two files were aggregated into a report whose only group
\* is (1, 2) <-> (1, 2).
C3_Witness ==
    /\ pc = "aggregated"
    /\ \E n \in DOMAIN matches :
          /\ matches[n].level = 1
          /\ matches[n].left.node.start_line = 1 /\ matches[n].left.node.end_line = 2
          /\ matches[n].right.node.start_line = 1 /\ matches[n].right.node.end_line = 2
    /\ \E n \in DOMAIN matches :
          /\ matches[n].level = 0
          /\ matches[n].left.node.start_line = 1
          /\ matches[n].right.node.start_line = 1
    /\ \E i \in DOMAIN reports :
          /\ Len(reports[i].groups) = 1
          /\ reports[i].groups[1].lines_a = <<1, 2>>
          /\ reports[i].groups[1].lines_b = <<1, 2>>

RECURSIVE Pow2(_)
Pow2(n) == IF n = 0 THEN 1 ELSE 2 * Pow2(n - 1)

\* C4: every node n of a tree built by build_hash_tree from the output of
\* hash_lines has end_line - start_line + 1 <= 2^level <= 256.
C4_NodeSpanBound ==
    \A f \in DOMAIN trees :
        \A lv \in DOMAIN trees[f] :
            \A i \in DOMAIN trees[f][lv] :
                LET n == trees[f][lv][i]
                IN  /\ n.end_line - n.start_line + 1 <= Pow2(n.level)
                    /\ Pow2(n.level) <= 256

---------------------------------------------------------------------------
(* Properties of the collision index, checked under SpecIndex *)

\* every location passed to add so far, in insertion order
AddedLocs ==
    Flatten([k \in DOMAIN indexed |->
                LET nodes == Flatten(indexed[k].tree)
                IN  [i \in 1..Len(nodes) |->
                        [file_path |-> indexed[k].path, node |-> nodes[i]]]])

\* the locations added under hash value h, in insertion order
LocsUnder(h) == SelectSeq(AddedLocs, LAMBDA l : l.node.hash_value = h)

HashesAdded ==
    LET all == AddedLocs
    IN  {all[i].node.hash_value : i \in DOMAIN all}

\* two locations of one file whose closed line ranges intersect
SameFileOverlap(l, r) ==
    /\ l.file_path = r.file_path
    /\ l.node.start_line <= r.node.end_line
    /\ r.node.start_line <= l.node.end_line

\* C5: every match emitted by find_clones has both nodes' hash_value equal to
\* shared_hash and both nodes' level equal to the match's level.
C5_MatchSameHashAndLevel ==
    pc = "found" =>
        \A k \in DOMAIN matches :
            LET m == matches[k]
            IN  /\ m.left.node.hash_value = m.shared_hash
                /\ m.right.node.hash_value = m.shared_hash
                /\ m.left.node.level = m.level
                /\ m.right.node.level = m.level

\* C9: find_clones emits no match from a hash under which fewer than 2 or more
\* than 100 locations were added (whatever their file, level or token_count),
\* and a bucket of exactly 100 locations that holds a pair meeting the token
\* threshold and not overlapping in one file does emit.
C9_BucketFilter ==
    pc = "found" =>
        \A h \in HashesAdded :
            LET locs == LocsUnder(h)
                big == {i \in DOMAIN locs : locs[i].node.token_count >= min_token_count}
            IN  /\ (Len(locs) < 2 \/ Len(locs) > 100) =>
                      \A k \in DOMAIN matches : matches[k].shared_hash # h
                /\ (Len(locs) = 100
                    /\ \E i, j \in big : i < j /\ ~SameFileOverlap(locs[i], locs[j])) =>
                      \E k \in DOMAIN matches : matches[k].shared_hash = h

\* C9 witness: find_clones ran on an index with a bucket of exactly 100
\* locations and emitted a match from it.
C9_Witness ==
    /\ pc = "found"
    /\ \E h \in HashesAdded :
          /\ Len(LocsUnder(h)) = 100
          /\ \E k \in DOMAIN matches : matches[k].shared_hash = h

\* C10: within a bucket of 2..100 locations a pair (earlier, later) is emitted
\* iff both nodes have token_count >= min_token_count and the two are not
\* overlapping ranges of one file; every emitted match is such a pair.
C10_PairEmittedIff ==
    pc = "found" =>
        \A h \in HashesAdded :
            LET locs == LocsUnder(h)
                big == {i \in DOMAIN locs : locs[i].node.token_count >= min_token_count}
                Emitted(i, j) ==
                    \E k \in DOMAIN matches :
                        /\ matches[k].shared_hash = h
                        /\ matches[k].left = locs[i]
                        /\ matches[k].right = locs[j]
            IN  (Len(locs) >= 2 /\ Len(locs) <= 100) =>
                    /\ \A i, j \in big :
                          i < j => (Emitted(i, j) <=> ~SameFileOverlap(locs[i], locs[j]))
                    /\ \A k \in DOMAIN matches :
                          matches[k].shared_hash = h =>
                              \E i, j \in big :
                                  /\ i < j
                                  /\ matches[k].left = locs[i]
                                  /\ matches[k].right = locs[j]

\* C10 witness: find_clones ran on a bucket of 2..100 locations that holds an
\* emitted pair, a skipped pair of overlapping ranges of one file (both above
\* the threshold) and a location below the threshold.
C10_Witness ==
    /\ pc = "found"
    /\ \E h \in HashesAdded :
          LET locs == LocsUnder(h)
          IN  /\ Len(locs) >= 3 /\ Len(locs) <= 100
              /\ \E k \in DOMAIN matches : matches[k].shared_hash = h
              /\ \E i, j \in DOMAIN locs :
                    /\ i < j
                    /\ locs[i].node.token_count >= min_token_count
                    /\ locs[j].node.token_count >= min_token_count
                    /\ SameFileOverlap(locs[i], locs[j])
              /\ \E i \in DOMAIN locs : locs[i].node.token_count < min_token_count

---------------------------------------------------------------------------
(* Properties of the scan driver, checked under SpecScan *)

RECURSIVE SumTotalClonedLines(_)
SumTotalClonedLines(reps) ==
    IF reps = <<>> THEN 0
    ELSE Head(reps).total_cloned_lines + SumTotalClonedLines(Tail(reps))

\* C6: normalisation monotonicity: once one corpus is scanned at two
\* normalisation levels with the same min_tokens, the sum of
\* total_cloned_lines at the higher level (LITERALS over IDENTIFIERS over
\* EXACT) is at least the sum at the lower level
C6_NormalisationMonotone ==
    \A lo \in scanned : \A hi \in scanned :
        lo <= hi => SumTotalClonedLines(scan_reports[lo])
                        <= SumTotalClonedLines(scan_reports[hi])

---------------------------------------------------------------------------
(* Properties of the suppression filter, checked under SpecFilter *)

\* C7: filter idempotence: with a non-empty pattern tuple, filter_reports
\* applied to its own result with the same patterns and read function
\* returns that result unchanged
C7_FilterIdempotent ==
    (suppress # <<>> /\ Len(filter_calls) = 2)
        => filter_calls[2].result = filter_calls[1].result

\* a second call was made after a first call that suppressed one group by
\* direct match and another by sibling propagation, and kept a third
C7_Witness ==
    /\ suppress # <<>>
    /\ Len(filter_calls) = 2
    /\ filter_calls[1].result # <<>>
    /\ LET direct == PatternMatchStage(suppress, filter_input,
                                       FilterContext(file_texts)).reports
       IN  /\ direct # filter_input
           /\ direct # filter_calls[1].result

\* C8: with an empty pattern list filter_reports returns its input reports
\* unchanged and calls the read function not once; run_filters with an empty
\* stage list returns its input unchanged
C8_EmptyPatternsIdentity ==
    /\ suppress = <<>> =>
          \A i \in DOMAIN filter_calls :
              /\ filter_calls[i].result = filter_calls[i].input
              /\ filter_calls[i].reads = <<>>
    /\ \A i \in DOMAIN stage_calls :
          stage_calls[i].result = stage_calls[i].input

\* filter_reports with no pattern and run_filters with no stage were both
\* called on reports of files that every pattern "*" would have suppressed
C8_Witness ==
    /\ suppress = <<>>
    /\ filter_calls # <<>>
    /\ stage_calls # <<>>
    /\ Len(filter_input) = 3
    /\ \A p \in FilterPaths : file_texts[p].ok

---------------------------------------------------------------------------
(* Properties of the stages, checked under SpecStages *)

\* two closed line ranges share a line
RangesIntersect(r, s) == \E n \in r[1]..r[2] : n \in s[1]..s[2]

\* lines line_range of file_path share a line with an entry of locs
SideOverlaps(file_path, line_range, locs) ==
    \E s \in locs : s[1] = file_path /\ RangesIntersect(line_range, s[2])

\* the groups of all the reports
GroupSet(reps) ==
    UNION {{reps[i].groups[j] : j \in DOMAIN reps[i].groups} : i \in DOMAIN reps}

\* the calls of one stage made so far
CallsOf(stage) ==
    {stage_trace[i] : i \in {j \in DOMAIN stage_trace : stage_trace[j].stage = stage}}

\* C11: SiblingStage removes a group it receives if and only if both
\* (file_a, lines_a) and (file_b, lines_b) share a line with some entry of
\* the suppressed-locations set for the same file; a group with one side
\* overlapping, or met with an empty set, is kept
C11_SiblingRemovesIffBothOverlap ==
    \A c \in CallsOf("SiblingStage") :
        LET locs == c.before.suppressed_locations
        IN  \A g \in GroupSet(c.input) :
                g \notin GroupSet(c.output)
                    <=> /\ SideOverlaps(g.file_a, g.lines_a, locs)
                        /\ SideOverlaps(g.file_b, g.lines_b, locs)

\* SiblingStage, called after PatternMatchStage recorded locations, removed
\* a group neither of whose sides equals a recorded location and kept a
\* group with exactly one side overlapping
C11_Witness ==
    /\ Len(stage_trace) = 2
    /\ \E c \in CallsOf("SiblingStage") :
          LET locs == c.before.suppressed_locations
          IN  /\ \E g \in GroupSet(c.input) \ GroupSet(c.output) :
                    /\ <<g.file_a, g.lines_a>> \notin locs
                    /\ <<g.file_b, g.lines_b>> \notin locs
              /\ \E g \in GroupSet(c.output) :
                    SideOverlaps(g.file_a, g.lines_a, locs)
                        # SideOverlaps(g.file_b, g.lines_b, locs)

\* some pattern matches one of the lines line_range of the text, or the line
\* above them
TextMatches(text, line_range) ==
    LET lines == splitlines(text)
    IN  \E n \in DOMAIN lines :
            /\ line_range[1] - 1 <= n
            /\ n <= line_range[2]
            /\ \E p \in DOMAIN suppress : fnmatch(lines[n], suppress[p])

\* the read function returns a source for the file and a line of the side
\* matches
ReadableSideMatches(file_path, line_range) ==
    /\ file_texts[file_path].ok
    /\ TextMatches(file_texts[file_path].text, line_range)

\* C12: a side whose file the read function returns None for contributes
\* no line to the pattern check: PatternMatchStage removes a group with an
\* absent side if and only if its other side is readable and has a
\* matching line, so a group whose two files are absent is never removed
C12_AbsentSideNeverMatches ==
    \A c \in CallsOf("PatternMatchStage") :
        \A g \in GroupSet(c.input) :
            (~ file_texts[g.file_a].ok \/ ~ file_texts[g.file_b].ok)
                => (g \notin GroupSet(c.output)
                        <=> \/ ReadableSideMatches(g.file_a, g.lines_a)
                            \/ ReadableSideMatches(g.file_b, g.lines_b))

\* PatternMatchStage kept a group whose two files are absent and removed a
\* group whose first file is absent and whose second file has a matching line
C12_Witness ==
    \E c \in CallsOf("PatternMatchStage") :
        /\ \E g \in GroupSet(c.output) :
              ~ file_texts[g.file_a].ok /\ ~ file_texts[g.file_b].ok
        /\ \E g \in GroupSet(c.input) \ GroupSet(c.output) :
              ~ file_texts[g.file_a].ok /\ file_texts[g.file_b].ok

\* line_count summed over the first n groups
RECURSIVE LineCountOfFirst(_, _)
LineCountOfFirst(groups, n) ==
    IF n = 0 THEN 0 ELSE LineCountOfFirst(groups, n - 1) + groups[n].line_count

\* C13: filter_reports with a non-empty pattern tuple returns no report with
\* an empty group list, and the total_cloned_lines of every report it
\* returns is the sum of line_count over the report's groups, whatever the
\* total of the report it was given
C13_NoEmptyReportTotalRecomputed ==
    \A c \in CallsOf("filter_reports") :
        \A i \in DOMAIN c.output :
            /\ c.output[i].groups # <<>>
            /\ c.output[i].total_cloned_lines
                  = LineCountOfFirst(c.output[i].groups, Len(c.output[i].groups))

\* filter_reports was given reports whose totals differ from their groups'
\* line counts, dropped one report whole and returned another with fewer
\* groups than it had
C13_Witness ==
    \E c \in CallsOf("filter_reports") :
        /\ \A i \in DOMAIN c.input :
              c.input[i].total_cloned_lines
                  # LineCountOfFirst(c.input[i].groups, Len(c.input[i].groups))
        /\ \E i \in DOMAIN c.input : \A k \in DOMAIN c.output :
              c.output[k].file_a # c.input[i].file_a
                  \/ c.output[k].file_b # c.input[i].file_b
        /\ \E i \in DOMAIN c.input : \E k \in DOMAIN c.output :
              /\ c.output[k].file_a = c.input[i].file_a
              /\ c.output[k].file_b = c.input[i].file_b
              /\ Len(c.output[k].groups) < Len(c.input[i].groups)

\* what the scenario's stages and filter_reports return: PatternMatchStage
\* only the report of the two implementations, the others nothing
ScenarioOutputs ==
    /\ \A c \in CallsOf("PatternMatchStage") : c.output = <<ScenarioReports[3]>>
    /\ \A c \in CallsOf("SiblingStage") :
          c.input = <<ScenarioReports[3]>> => c.output = <<>>
    /\ \A c \in CallsOf("filter_reports") : c.output = <<>>

\* C17 as claimed: in the abstract-method scenario stage 1 removes the two
\* abc-vs-impl reports and leaves four locations in the suppressed-locations
\* set, stage 2 removes the impl-vs-impl report and the filter returns no
\* report
C17_ScenarioFourLocations ==
    filter_input = ScenarioReports =>
        /\ ScenarioOutputs
        /\ \A c \in CallsOf("PatternMatchStage") :
              Cardinality(c.after.suppressed_locations) = 4

\* C17 amended: stage 1 removes the two abc-vs-impl reports and leaves three
\* locations in the suppressed-locations set, abc.py line 5 (recorded by
\* both removed groups), impl_a.py line 4 and impl_b.py line 4; stage 2
\* removes the impl-vs-impl report and the filter returns no report
C17_ScenarioThreeLocations ==
    filter_input = ScenarioReports =>
        /\ ScenarioOutputs
        /\ \A c \in CallsOf("PatternMatchStage") :
              c.after.suppressed_locations
                  = {<<AbcPy, <<5, 5>>>>, <<ImplAPy, <<4, 4>>>>,
                     <<ImplBPy, <<4, 4>>>>}

\* both stages were called in turn on the scenario's reports
C17_Witness ==
    /\ filter_input = ScenarioReports
    /\ Len(stage_trace) = 2
    /\ stage_trace[2].stage = "SiblingStage"
    /\ stage_reports = <<>>

---------------------------------------------------------------------------
(* Properties of scan's suppression step, checked under SpecScan *)

\* C14: the configuration scan consumes has the field suppress_patterns;
\* scan raises no exception, returns the reports of aggregate_clone_matches
\* as they are when suppress_patterns is empty, and returns filter_reports
\* of them when it is not
C14_ScanFiltersAndNeverRaises ==
    \A level \in scanned :
        /\ HasAttr(ScanConfig(level), "suppress_patterns")
        /\ scan_raised[level] = ""
        /\ scan_reports[level]
              = IF scan_suppress.patterns = <<>> THEN scan_aggregated[level]
                ELSE filter_reports(scan_aggregated[level], scan_suppress.patterns,
                                    ReadFileStr(scan_files)).reports

---------------------------------------------------------------------------
(* Properties of the aggregator on hand-built match lists, checked under  *)
(* SpecAggregate *)

\* the two files of a match or of a report, in either order
FilesOfMatch(m) == {m.left.file_path, m.right.file_path}
FilesOfReport(r) == {r.file_a, r.file_b}

\* the matches of the unordered file pair, each turned so that its left file
\* is the smaller path
MatchesOfPair(files) ==
    LET own == SelectSeq(matches, LAMBDA m : FilesOfMatch(m) = files)
    IN  [i \in 1..Len(own) |->
            IF StrLeq(own[i].left.file_path, own[i].right.file_path) THEN own[i]
            ELSE CloneMatch(own[i].right, own[i].left, own[i].level,
                            own[i].shared_hash)]

\* the groups of a file pair before the token filter: the coalesced level-0
\* runs and one group per higher-level match
CandidateGroups(files) ==
    LET own == MatchesOfPair(files)
        higher == SelectSeq(own, LAMBDA m : m.level > 0)
    IN  _merge_consecutive_matches(SelectSeq(own, LAMBDA m : m.level = 0))
        \o [i \in 1..Len(higher) |-> _higher_level_to_group(higher[i])]

\* some group of the file pair has at least min_group_tokens tokens
PairSurvives(files) ==
    LET groups == CandidateGroups(files)
    IN  \E i \in DOMAIN groups : groups[i].token_count >= min_group_tokens

\* C15: aggregate_clone_matches returns at most one report per unordered
\* file pair, a report for exactly the pairs of which a group reaches
\* min_group_tokens, and the reports in strictly ascending order of
\* (file_a, file_b)
C15_OneReportPerPairAscending ==
    pc = "aggregated" =>
        /\ \A i \in DOMAIN reports : \A j \in DOMAIN reports :
              i # j => FilesOfReport(reports[i]) # FilesOfReport(reports[j])
        /\ {FilesOfReport(reports[i]) : i \in DOMAIN reports}
              = {files \in {FilesOfMatch(matches[i]) : i \in DOMAIN matches} :
                    PairSurvives(files)}
        /\ \A i \in DOMAIN reports : \A j \in DOMAIN reports :
              i < j => \/ StrLess(reports[i].file_a, reports[j].file_a)
                       \/ /\ reports[i].file_a = reports[j].file_a
                          /\ StrLess(reports[i].file_b, reports[j].file_b)

\* a match of b against a extended the run of the matches of a against b
\* into the one group of their report, a second report follows it, and the
\* groups of a third pair were all dropped
C15_Witness ==
    /\ pc = "aggregated"
    /\ \E j \in DOMAIN matches : matches[j].left.file_path = <<"b">>
                                  /\ matches[j].right.file_path = <<"a">>
    /\ Len(reports) = 2
    /\ reports[1].file_b = <<"b">>
    /\ Len(reports[1].groups) = 1
    /\ reports[1].groups[1].line_count = Len(MatchesOfPair({<<"a">>, <<"b">>}))
    /\ reports[1].groups[1].line_count > 1
    /\ \E i \in DOMAIN matches : ~ PairSurvives(FilesOfMatch(matches[i]))

\* the left token count of the level-0 match of lines line_a and line_b
TokensAt(own, line_a, line_b) ==
    LET at == SelectSeq(own, LAMBDA m : /\ m.level = 0
                                        /\ m.left.node.start_line = line_a
                                        /\ m.right.node.start_line = line_b)
    IN  IF at = <<>> THEN 0 ELSE at[1].left.node.token_count

\* the left token counts of the level-0 matches along the first n lines of
\* the group, summed
RECURSIVE DiagonalTokens(_, _, _)
DiagonalTokens(own, g, n) ==
    IF n = 0 THEN 0
    ELSE DiagonalTokens(own, g, n - 1)
         + TokensAt(own, g.lines_a[1] + n - 1, g.lines_b[1] + n - 1)

\* the group is the group of a higher-level match
FromHigherLevel(own, g) ==
    \E i \in DOMAIN own : own[i].level > 0 /\ g = _higher_level_to_group(own[i])

\* C18: the token filter acts on whole groups, after coalescing and before
\* deduplication: every returned group has at least min_group_tokens
\* tokens, the token count of a coalesced group being the sum of the left
\* token counts of its matches, and every group that has that many tokens
\* is returned or lies inside a returned group
C18_TokenFilterOnWholeGroups ==
    pc = "aggregated" =>
        /\ \A i \in DOMAIN reports : \A j \in DOMAIN reports[i].groups :
              LET g == reports[i].groups[j]
                  own == MatchesOfPair(FilesOfReport(reports[i]))
              IN  /\ g.token_count >= min_group_tokens
                  /\ \/ FromHigherLevel(own, g)
                     \/ g.token_count = DiagonalTokens(own, g, g.line_count)
        /\ \A m \in DOMAIN matches :
              LET groups == CandidateGroups(FilesOfMatch(matches[m]))
              IN  \A c \in DOMAIN groups :
                      groups[c].token_count >= min_group_tokens
                          => \E i \in DOMAIN reports :
                                \E j \in DOMAIN reports[i].groups :
                                    /\ reports[i].groups[j].file_a = groups[c].file_a
                                    /\ reports[i].groups[j].file_b = groups[c].file_b
                                    /\ Inside(groups[c], reports[i].groups[j])

\* a run of matches each below min_group_tokens was returned as one group,
\* a larger group of too few tokens was dropped and a group inside it kept
C18_Witness ==
    /\ pc = "aggregated"
    /\ \A m \in DOMAIN matches :
          matches[m].level = 0 => matches[m].left.node.token_count < min_group_tokens
    /\ \E i \in DOMAIN reports : \E j \in DOMAIN reports[i].groups :
          /\ reports[i].groups[j].line_count > 1
          /\ ~ FromHigherLevel(MatchesOfPair(FilesOfReport(reports[i])),
                               reports[i].groups[j])
    /\ \E i \in DOMAIN reports : \E j \in DOMAIN reports[i].groups :
          LET groups == CandidateGroups(FilesOfReport(reports[i]))
          IN  \E c \in DOMAIN groups :
                  /\ groups[c].token_count < min_group_tokens
                  /\ groups[c] # reports[i].groups[j]
                  /\ Inside(reports[i].groups[j], groups[c])

---------------------------------------------------------------------------
(* The identity scenario, checked under SpecScenario *)

\* one report of the two files with the one group of lines 1..8 of each
OneGroupOfAllLines ==
    /\ Len(reports) = 1
    /\ reports[1].file_a = <<"a">>
    /\ reports[1].file_b = <<"b">>
    /\ Len(reports[1].groups) = 1
    /\ reports[1].groups[1].lines_a = <<1, Len(ScenarioLines)>>
    /\ reports[1].groups[1].lines_b = <<1, Len(ScenarioLines)>>
    /\ reports[1].groups[1].line_count = Len(ScenarioLines)

\* C16 as claimed: two files of the eight one-token lines a..h, taken
\* through hash_lines, build_hash_tree, the index and the aggregator, give
\* exactly one report with exactly one group, lines_a = lines_b = (1, 8)
\* and line_count = 8
C16_ScenarioOneGroup ==
    pc = "aggregated" => OneGroupOfAllLines

\* C16 amended: they give that one report and group when min_token_count
\* and min_group_tokens are at most 8, the number of tokens of a file
C16_ScenarioOneGroupUpToEight ==
    (/\ pc = "aggregated"
     /\ min_token_count <= Len(ScenarioLines)
     /\ min_group_tokens <= Len(ScenarioLines))
        => OneGroupOfAllLines

\* the scenario was aggregated from the matches of every level of the two
\* trees
C16_Witness ==
    /\ pc = "aggregated"
    /\ min_token_count = 1
    /\ min_group_tokens = 1
    /\ {matches[i].level : i \in DOMAIN matches} = 0..3
    /\ Len(reports) = 1

---------------------------------------------------------------------------
(* Coalescing of the matches the index emits, checked under Spec *)

\* the level-0 matches of the file pair hold a+i <-> b+i for i in 0..n-1
HasDiagonalRun(own, a, b, n) ==
    \A i \in 0..(n - 1) :
        \E k \in DOMAIN own : /\ own[k].level = 0
                              /\ own[k].left.node.start_line = a + i
                              /\ own[k].right.node.start_line = b + i

\* C19: whenever the level-0 matches of a file pair hold a run
\* a+i <-> b+i, i in 0..n-1, whose tokens reach min_group_tokens, the
\* pair's report has a group whose lines_a contain a..a+n-1 and whose
\* lines_b contain b..b+n-1, whatever other matches involve those lines
C19_DiagonalRunsRecovered ==
    pc = "aggregated" =>
        \A m \in DOMAIN matches :
            LET files == FilesOfMatch(matches[m])
                own == MatchesOfPair(files)
            IN  \A a \in 1..MaxLines : \A b \in 1..MaxLines : \A n \in 1..MaxLines :
                    LET run == CloneGroup(own[1].left.file_path, <<a, a + n - 1>>,
                                          own[1].right.file_path, <<b, b + n - 1>>,
                                          n, 0)
                    IN  (/\ HasDiagonalRun(own, a, b, n)
                         /\ DiagonalTokens(own, run, n) >= min_group_tokens)
                            => \E i \in DOMAIN reports :
                                  /\ FilesOfReport(reports[i]) = files
                                  /\ \E j \in DOMAIN reports[i].groups :
                                        Inside(run, reports[i].groups[j])

---------------------------------------------------------------------------
(* Pair enumeration of find_clones, checked under SpecIndex *)

\* the position of a location in its bucket (a file is added once and no
\* tree holds a node twice, so the locations of a bucket are distinct)
PositionIn(locations, loc) == CHOOSE i \in DOMAIN locations : locations[i] = loc

\* the matches find_clones emitted for one bucket, in emission order
MatchesOfBucket(bucket) ==
    SelectSeq(matches, LAMBDA m : m.shared_hash = bucket.key)

\* (left position, right position) of p comes before that of q
PairBefore(locations, p, q) ==
    LET pl == PositionIn(locations, p.left)
        pr == PositionIn(locations, p.right)
        ql == PositionIn(locations, q.left)
        qr == PositionIn(locations, q.right)
    IN  pl < ql \/ (pl = ql /\ pr < qr)

\* three locations of three different files, all with enough tokens
ThreeFilesShare(bucket) ==
    /\ Len(bucket.locs) = 3
    /\ Cardinality({bucket.locs[i].file_path : i \in 1..3}) = 3
    /\ \A i \in 1..3 : bucket.locs[i].node.token_count >= min_token_count

\* C20: the matches of a bucket pair two locations of the bucket, left
\* inserted before right (so never a location with itself), no unordered
\* pair twice, in insertion order by left and then by right; a bucket of
\* three qualifying locations of three files gives exactly 3 matches
C20_PairsOnceInInsertionOrder ==
    pc = "found" =>
        \A b \in DOMAIN index :
            LET locations == index[b].locs
                emitted == MatchesOfBucket(index[b])
            IN  /\ \A k \in DOMAIN emitted :
                      /\ \E i \in DOMAIN locations : emitted[k].left = locations[i]
                      /\ \E j \in DOMAIN locations : emitted[k].right = locations[j]
                      /\ emitted[k].left # emitted[k].right
                      /\ PositionIn(locations, emitted[k].left)
                            < PositionIn(locations, emitted[k].right)
                /\ \A k \in DOMAIN emitted : \A l \in DOMAIN emitted :
                      k < l =>
                          /\ {emitted[k].left, emitted[k].right}
                                # {emitted[l].left, emitted[l].right}
                          /\ PairBefore(locations, emitted[k], emitted[l])
                /\ ThreeFilesShare(index[b]) => Len(emitted) = 3

\* three files sharing one qualifying hash were searched: (a, b), (a, c), (b, c)
C20_Witness ==
    /\ pc = "found"
    /\ \E b \in DOMAIN index :
          /\ ThreeFilesShare(index[b])
          /\ Len(MatchesOfBucket(index[b])) = 3
          /\ MatchesOfBucket(index[b])[2].left = index[b].locs[1]
          /\ MatchesOfBucket(index[b])[2].right = index[b].locs[3]

---------------------------------------------------------------------------
(* Properties of PatternMatchStage, checked under SpecStages *)

\* the two locations of a group
LocationsOf(g) == {<<g.file_a, g.lines_a>>, <<g.file_b, g.lines_b>>}

\* C21: PatternMatchStage removes a group if and only if, on one of its
\* sides, a line numbered max(1, start - 1)..end of the file's source
\* matches a pattern as a whole-line glob: one line above the range and
\* none before line 1; the locations (file_a, lines_a) and (file_b,
\* lines_b) of every removed group are in the suppressed-locations set
\* after the call
C21_PatternStageRemovesIffLineMatches ==
    \A c \in CallsOf("PatternMatchStage") :
        \A g \in GroupSet(c.input) :
            /\ g \notin GroupSet(c.output)
                  <=> \/ ReadableSideMatches(g.file_a, g.lines_a)
                      \/ ReadableSideMatches(g.file_b, g.lines_b)
            /\ g \notin GroupSet(c.output)
                  => LocationsOf(g) \subseteq c.after.suppressed_locations

\* PatternMatchStage removed a group of line 2 only the line above which
\* matches, with both files readable, recorded its two locations anew, and
\* kept a group of two readable files
C21_Witness ==
    \E c \in CallsOf("PatternMatchStage") :
        /\ \E g \in GroupSet(c.input) \ GroupSet(c.output) :
              /\ g.lines_a = <<2, 2>>
              /\ file_texts[g.file_a] = Some(DecoratedText)
              /\ file_texts[g.file_b].ok
              /\ \A p \in DOMAIN suppress :
                    /\ ~ fnmatch(<<"d">>, suppress[p])
                    /\ fnmatch(<<" ", "@">>, suppress[p])
              /\ LocationsOf(g) \cap c.before.suppressed_locations = {}
        /\ \E g \in GroupSet(c.output) :
              file_texts[g.file_a].ok /\ file_texts[g.file_b].ok

\* a group of line 1 is kept although line 2 of its file matches
C21_ClampedAtLineOne ==
    \E c \in CallsOf("PatternMatchStage") :
        \E g \in GroupSet(c.output) :
            /\ g.lines_a = <<1, 1>>
            /\ file_texts[g.file_a].ok
            /\ TextMatches(file_texts[g.file_a].text, <<2, 2>>)

\* the paths in a list of read_fn calls
PathsRead(reads) == {reads[i] : i \in DOMAIN reads}

\* C22: over PatternMatchStage followed by SiblingStage on one context, the
\* read function is called at most once per path, absent files included,
\* and only for the first file of a group or for the second file of a
\* group whose first side did not match; SiblingStage calls it not once
C22_ReadsOncePerNeededPath ==
    /\ \A c \in CallsOf("PatternMatchStage") :
          LET reads == c.after.reads
          IN  /\ c.before.reads = <<>>
              /\ \A i \in DOMAIN reads : \A j \in DOMAIN reads :
                    reads[i] = reads[j] => i = j
              /\ \A i \in DOMAIN reads :
                    \E g \in GroupSet(c.input) :
                        \/ reads[i] = g.file_a
                        \/ /\ reads[i] = g.file_b
                           /\ ~ ReadableSideMatches(g.file_a, g.lines_a)
    /\ \A c \in CallsOf("SiblingStage") :
          c.after.reads = c.before.reads /\ c.after.cache = c.before.cache

\* both stages ran on one context: an absent file that is the first file
\* of two groups was read, and the second file of a group whose first
\* side matched was never read
C22_Witness ==
    /\ Len(stage_trace) = 2
    /\ \E c \in CallsOf("PatternMatchStage") :
          /\ \E g \in GroupSet(c.input) : \E k \in GroupSet(c.input) :
                /\ g # k
                /\ g.file_a = k.file_a
                /\ ~ file_texts[g.file_a].ok
                /\ g.file_a \in PathsRead(stage_ctx.reads)
          /\ \E g \in GroupSet(c.input) :
                /\ ReadableSideMatches(g.file_a, g.lines_a)
                /\ g.file_b \notin PathsRead(stage_ctx.reads)

---------------------------------------------------------------------------
(* SpecTree: build_hash_tree called on one list of line hashes: up to      *)
(* MaxTreeLeaves line hashes with one or three tokens each, on consecutive *)
(* lines or on every second line, and lists long enough to reach the       *)
(* level cap, as test_level_cap builds them.                               *)

MaxTreeLeaves == 5

LineHash(hash_value, line, token_count) ==
    [hash_value |-> hash_value, line |-> line, token_count |-> token_count]

\* n line hashes on the lines step, 2 * step, ...
LineHashLists ==
    UNION {{[i \in 1..Len(tc) |-> LineHash(i, step * i, tc[i])] :
                tc \in [1..n -> {1, 3}]} :
           n \in 0..MaxTreeLeaves, step \in {1, 2}}

\* [LineHash(hash_value=i, line=i, token_count=1) for i in range(1, n + 1)]
LongLineHashes(n) == [i \in 1..n |-> LineHash(i, i, 1)]

\* the fewest leaves that give level _MAX_TREE_LEVEL two nodes
CapLeaves == Pow2(_MAX_TREE_LEVEL + 1)

InitTree ==
    /\ corpus = <<>>
    /\ \E lh \in LineHashLists
               \cup {LongLineHashes(CapLeaves), LongLineHashes(CapLeaves + 1)} :
          hashed = <<lh>>
    /\ trees = <<>>
    /\ indexed = <<>>
    /\ index = <<>>
    /\ pc = "load"
    /\ min_token_count = 0
    /\ matches = <<>>
    /\ min_group_tokens = 0
    /\ reports = <<>>
    /\ scan_files = <<>>
    /\ scan_min_tokens = 0
    /\ scanned = {}
    /\ scan_reports = <<>>
    /\ scan_suppress = <<>>
    /\ scan_raised = <<>>
    /\ scan_aggregated = <<>>
    /\ file_texts = <<>>
    /\ suppress = <<>>
    /\ filter_input = <<>>
    /\ filter_calls = <<>>
    /\ stage_calls = <<>>
    /\ stage_ctx = <<>>
    /\ stage_reports = <<>>
    /\ stage_trace = <<>>
    /\ merged = <<>>
    /\ rearranged = <<>>

NextTree == BuildTree

SpecTree == InitTree /\ [][NextTree]_vars

---------------------------------------------------------------------------
(* Properties of the hash tree, checked under SpecTree *)

\* C23: build_hash_tree on no line hash returns no level; on n >= 1 line
\* hashes it returns levels 0..m, m <= 8, none empty: level 0 has n nodes,
\* level k >= 1 has floor(len(level k-1) / 2) nodes, the i-th made of the
\* nodes 2i and 2i+1 of level k-1 (start_line of the left, end_line of the
\* right), so an unpaired last node is not promoted; every level but the
\* last has at least 2 nodes, and the last has fewer than 2 unless m = 8
C23_TreeLevels ==
    \A f \in DOMAIN trees :
        LET line_hashes == hashed[f]
            t == trees[f]
            m == Len(t) - 1
        IN  IF line_hashes = <<>> THEN t = <<>>
            ELSE /\ Len(t) >= 1
                 /\ m <= 8
                 /\ Len(t[1]) = Len(line_hashes)
                 /\ \A k \in 1..m :
                       /\ Len(t[k]) >= 2
                       /\ Len(t[k + 1]) = Len(t[k]) \div 2
                       /\ \A i \in 0..(Len(t[k + 1]) - 1) :
                             /\ t[k + 1][i + 1].start_line = t[k][2 * i + 1].start_line
                             /\ t[k + 1][i + 1].end_line = t[k][2 * i + 2].end_line
                 /\ \A k \in DOMAIN t : t[k] # <<>>
                 /\ Len(t[m + 1]) < 2 \/ m = 8

\* a tree was built from an odd number of leaves, more than 512: it stops
\* at level 8, which has two nodes
C23_Witness ==
    /\ trees # <<>>
    /\ Len(hashed[1]) > 512
    /\ Len(hashed[1]) % 2 = 1
    /\ Len(trees[1]) = 9
    /\ Len(trees[1][9]) = 2

\* token_count summed over leaves lo..hi
RECURSIVE LeafTokens(_, _, _)
LeafTokens(leaves, lo, hi) ==
    IF lo = hi THEN leaves[lo].token_count
    ELSE LET mid == (lo + hi) \div 2
         IN  LeafTokens(leaves, lo, mid) + LeafTokens(leaves, mid + 1, hi)

\* C24: the node of index j (from 0) of level k of a built tree covers the
\* 2^k leaves of indices j * 2^k .. (j + 1) * 2^k - 1: it starts at the
\* first one's line and ends at the last one's, its token_count is the sum
\* of theirs, and its level field is k, its level's index in the tree
C24_NodeCoversAlignedLeaves ==
    \A f \in DOMAIN trees :
        LET t == trees[f]
        IN  \A k \in 0..(Len(t) - 1) :
                \A j \in 0..(Len(t[k + 1]) - 1) :
                    LET node == t[k + 1][j + 1]
                        first == j * Pow2(k) + 1
                        last == (j + 1) * Pow2(k)
                    IN  /\ last <= Len(t[1])
                        /\ node.start_line = t[1][first].start_line
                        /\ node.end_line = t[1][last].end_line
                        /\ node.token_count = LeafTokens(t[1], first, last)
                        /\ node.level = k

\* a tree of five leaves with different token counts on every second line
\* was built: its level-2 node covers leaves 0..3 and the fifth leaf is in
\* no node above level 0
C24_Witness ==
    /\ trees # <<>>
    /\ Len(trees[1]) = 3
    /\ Len(trees[1][1]) = 5
    /\ trees[1][1][1].token_count # trees[1][1][2].token_count
    /\ trees[1][1][2].start_line = 4
    /\ trees[1][3][1].end_line = 8

---------------------------------------------------------------------------
(* SpecTokenize: tokenize called on the lexemes of one source of up to     *)
(* MaxLexemes lexemes: names, blanks, newlines, comments with and without  *)
(* a newline inside, and a string literal that spans two lines.            *)

MaxLexemes == 4

Lexemes ==
    {<< <<"Name">>, <<"a", "b">> >>,
     << <<"Text", "Whitespace">>, <<" ">> >>,
     << <<"Text", "Whitespace">>, <<"\n", "\n", " ">> >>,
     << <<"Comment", "Single">>, <<"#", "c">> >>,
     << <<"Comment", "Multiline">>, <<"/", "\n", "*", "/">> >>,
     << <<"Literal", "String">>, <<"'", "\n", "s", "'">> >>,
     Newline}

LexemeSeqs == UNION {[1..n -> Lexemes] : n \in 0..MaxLexemes}

InitTokenize ==
    /\ corpus = <<>>
    /\ hashed = <<>>
    /\ trees = <<>>
    /\ indexed = <<>>
    /\ index = <<>>
    /\ pc = "load"
    /\ min_token_count = 0
    /\ matches = <<>>
    /\ min_group_tokens = 0
    /\ reports = <<>>
    /\ \E lexemes \in LexemeSeqs :
          scan_files = <<[path |-> <<"a">>, source |-> Some(lexemes)]>>
    /\ scan_min_tokens = 0
    /\ scanned = {}
    /\ scan_reports = <<>>
    /\ scan_suppress = <<>>
    /\ scan_raised = <<>>
    /\ scan_aggregated = <<>>
    /\ file_texts = <<>>
    /\ suppress = <<>>
    /\ filter_input = <<>>
    /\ filter_calls = <<>>
    /\ stage_calls = <<>>
    /\ stage_ctx = <<>>
    /\ stage_reports = <<>>
    /\ stage_trace = <<>>
    /\ merged = <<>>
    /\ rearranged = <<>>

\* tokens = tokenize(source, filename=path, level=level)
Tokenize ==
    /\ corpus = <<>>
    /\ \E level \in NormalizationLevel :
          corpus' = <<[path |-> scan_files[1].path,
                       tokens |-> tokenize(scan_files[1].source.text, level)]>>
    /\ UNCHANGED <<hashed, trees, indexed, index, pc, min_token_count, matches,
                   min_group_tokens, reports>>
    /\ UNCHANGED <<scanVars, filterVars, stageVars, orderVars>>

NextTokenize == Tokenize

SpecTokenize == InitTokenize /\ [][NextTokenize]_vars

---------------------------------------------------------------------------
(* Properties of the tokeniser, checked under SpecTokenize *)

\* the source text before lexeme i
TextBefore(lexemes, i) == SourceText(SubSeq(lexemes, 1, i - 1))

\* the positions of the newlines of a text
NewlinesIn(text) == {i \in DOMAIN text : text[i] = "\n"}

\* 1-based line and 0-based column of the character after the text
LineAfter(text) == 1 + Cardinality(NewlinesIn(text))
ColumnAfter(text) ==
    Cardinality({i \in DOMAIN text : \A n \in NewlinesIn(text) : n < i})

\* the indices of the lexemes that are neither whitespace nor comments
EmittedLexemes(lexemes) ==
    SelectSeq([i \in 1..Len(lexemes) |-> i],
              LAMBDA i : lexemes[i][1][1] \notin {"Text", "Comment"})

\* C25: the tokens are those of the lexemes that are not skipped, in
\* order, each with the line (from 1) and column (from 0) at which its
\* lexeme starts in the source, all the lexemes before it counted, the
\* skipped ones and those with newlines inside too; the lines are >= 1 and
\* never decrease
C25_TokenPositions ==
    \A f \in DOMAIN corpus :
        LET lexemes == scan_files[f].source.text
            tokens == corpus[f].tokens
            emitted == EmittedLexemes(lexemes)
        IN  /\ Len(tokens) = Len(emitted)
            /\ \A k \in DOMAIN tokens :
                  /\ tokens[k].line = LineAfter(TextBefore(lexemes, emitted[k]))
                  /\ tokens[k].column = ColumnAfter(TextBefore(lexemes, emitted[k]))
                  /\ tokens[k].line >= 1
                  /\ k > 1 => tokens[k - 1].line <= tokens[k].line

\* a comment with a newline inside was skipped, the string literal after it
\* starts at line 2, column 2, and the name after the two-line literal at
\* line 3, column 2
C25_Witness ==
    /\ corpus # <<>>
    /\ Len(scan_files[1].source.text) = 3
    /\ scan_files[1].source.text[1][1] = <<"Comment", "Multiline">>
    /\ Len(corpus[1].tokens) = 2
    /\ corpus[1].tokens[1].line = 2
    /\ corpus[1].tokens[1].column = 2
    /\ corpus[1].tokens[2].line = 3
    /\ corpus[1].tokens[2].column = 2

---------------------------------------------------------------------------
(* Properties of the two stages together, checked under SpecStages *)

\* both sides of g share a line with an entry of locs for the same file
BothSidesOverlap(g, locs) ==
    /\ SideOverlaps(g.file_a, g.lines_a, locs)
    /\ SideOverlaps(g.file_b, g.lines_b, locs)

\* the groups of the reports that PatternMatchStage removes
DirectlySuppressed(reps) ==
    {g \in GroupSet(reps) : \/ ReadableSideMatches(g.file_a, g.lines_a)
                             \/ ReadableSideMatches(g.file_b, g.lines_b)}

\* the locations of a set of groups
LocationsOfAll(groups) == UNION {LocationsOf(g) : g \in groups}

\* C26: SiblingStage leaves the suppressed-locations set as it found it
\* and keeps every group whose two sides do not both overlap that set;
\* filter_reports keeps every group that no pattern matches and whose two
\* sides do not both overlap locations of groups the patterns matched,
\* whatever groups are removed as siblings
C26_SiblingsOneHop ==
    /\ \A c \in CallsOf("SiblingStage") :
          /\ c.after.suppressed_locations = c.before.suppressed_locations
          /\ \A g \in GroupSet(c.input) :
                ~ BothSidesOverlap(g, c.before.suppressed_locations)
                    => g \in GroupSet(c.output)
    /\ \A c \in CallsOf("filter_reports") :
          LET direct == DirectlySuppressed(c.input)
          IN  \A g \in GroupSet(c.input) \ direct :
                  ~ BothSidesOverlap(g, LocationsOfAll(direct))
                      => g \in GroupSet(c.output)

\* filter_reports removed a group as a sibling and returned a group both
\* sides of which overlap that sibling's locations
C26_Witness ==
    \E c \in CallsOf("filter_reports") :
        LET direct == DirectlySuppressed(c.input)
            siblings == (GroupSet(c.input) \ direct) \ GroupSet(c.output)
        IN  /\ siblings # {}
            /\ \E g \in GroupSet(c.output) :
                  BothSidesOverlap(g, LocationsOfAll(siblings))

\* the file pairs of the reports, in order
PairsOf(reps) == [i \in DOMAIN reps |-> <<reps[i].file_a, reps[i].file_b>>]

\* the file pairs of sub come in the order in which reps has them
SameRelativeOrder(sub, reps) ==
    \A i \in DOMAIN sub : \A j \in DOMAIN sub :
        i < j => \E k \in DOMAIN reps : \E l \in DOMAIN reps :
                    /\ k < l
                    /\ PairsOf(reps)[k] = PairsOf(sub)[i]
                    /\ PairsOf(reps)[l] = PairsOf(sub)[j]

\* C28: what filter_reports decides for a group does not depend on where
\* the group stands: called on the same reports in another order, with the
\* groups of each report in the same or in reverse order, it returns the
\* same groups, in reports that follow the order of the new input; a
\* sibling standing before the groups the patterns match is removed
C28_FilterOrderIndependent ==
    (/\ Len(stage_trace) = 2
     /\ stage_trace[1].stage = "filter_reports"
     /\ stage_trace[2].stage = "filter_reports")
        => /\ GroupSet(stage_trace[2].output) = GroupSet(stage_trace[1].output)
           /\ Len(stage_trace[2].output) = Len(stage_trace[1].output)
           /\ SameRelativeOrder(stage_trace[2].output, stage_trace[2].input)
           /\ \A g \in GroupSet(stage_trace[2].input) \ DirectlySuppressed(filter_input) :
                 BothSidesOverlap(g, LocationsOfAll(DirectlySuppressed(filter_input)))
                     => g \notin GroupSet(stage_trace[2].output)

\* filter_reports was called on reports whose first holds a sibling and no
\* group that a pattern matches, removed the sibling and returned a group
C28_Witness ==
    /\ Len(stage_trace) = 2
    /\ stage_trace[2].stage = "filter_reports"
    /\ stage_trace[2].output # <<>>
    /\ LET first == stage_trace[2].input[1]
           direct == DirectlySuppressed(filter_input)
       IN  /\ GroupSet(<<first>>) \cap direct = {}
           /\ \E g \in GroupSet(<<first>>) :
                 /\ g \notin GroupSet(stage_trace[2].output)
                 /\ BothSidesOverlap(g, LocationsOfAll(direct))

\* sub is seq with some elements left out
RECURSIVE IsSubsequence(_, _)
IsSubsequence(sub, seq) ==
    IF sub = <<>> THEN TRUE
    ELSE IF seq = <<>> THEN FALSE
    ELSE IF Head(sub) = Head(seq) THEN IsSubsequence(Tail(sub), Tail(seq))
    ELSE IsSubsequence(sub, Tail(seq))

\* C29: a stage, and filter_reports, only remove: the file pairs of the
\* reports returned are those of the reports received with some left out,
\* in the same order, and the groups of a report returned are the groups
\* of the received report of the same files with some left out, equal
\* field by field and in the same order
C29_FilterOnlyRemoves ==
    \A n \in DOMAIN stage_trace :
        LET c == stage_trace[n]
        IN  /\ IsSubsequence(PairsOf(c.output), PairsOf(c.input))
            /\ \A i \in DOMAIN c.output :
                  \E k \in DOMAIN c.input :
                      /\ PairsOf(c.input)[k] = PairsOf(c.output)[i]
                      /\ IsSubsequence(c.output[i].groups, c.input[k].groups)

\* filter_reports was given three reports, in other than ascending order
\* of their files: it returned one report, which was not the first it was
\* given, with the second of that report's two groups only
C29_Witness ==
    /\ Len(stage_trace) = 2
    /\ LET c == stage_trace[2]
       IN  /\ c.stage = "filter_reports"
           /\ Len(c.input) = 3
           /\ Len(c.output) = 1
           /\ \E k \in 2..3 :
                 /\ PairsOf(c.input)[k] = PairsOf(c.output)[1]
                 /\ Len(c.input[k].groups) = 2
                 /\ c.output[1].groups = <<c.input[k].groups[2]>>

---------------------------------------------------------------------------
(* Properties of the aggregator under reordering, checked under SpecOrder *)

\* the matches of ms of the line line_a on the left and line_b on the right
MatchesAt(ms, line_a, line_b) ==
    {k \in DOMAIN ms : /\ ms[k].left.node.start_line = line_a
                       /\ ms[k].right.node.start_line = line_b}

\* C27: every group [a .. a+n-1] <-> [b .. b+n-1] returned by
\* _merge_consecutive_matches on the level-0 matches of one file pair
\* has n = line_count >= 1 lines on both sides, the input holds a match
\* a+i <-> b+i for every i in 0..n-1, the token_count of the group is the
\* sum of the left token counts of those matches, and the line counts of
\* the groups returned add up to the number of input matches
C27_CoalescingSound ==
    \A c \in DOMAIN merged :
        LET ms == merged[c].matches
            gs == merged[c].groups
        IN  /\ \A j \in DOMAIN gs :
                  LET g == gs[j]
                      a == g.lines_a[1]
                      b == g.lines_b[1]
                      n == g.line_count
                  IN  /\ n >= 1
                      /\ g.lines_a = <<a, a + n - 1>>
                      /\ g.lines_b = <<b, b + n - 1>>
                      /\ \A i \in 0..(n - 1) : MatchesAt(ms, a + i, b + i) # {}
                      /\ g.token_count = DiagonalTokens(ms, g, n)
            /\ SumLineCount(gs) = Len(ms)

\* three matches of a against b were coalesced into a group of two lines
\* and three tokens and a group of one line
C27_Witness ==
    /\ Len(merged) = 1
    /\ Len(merged[1].matches) = 3
    /\ Len(merged[1].groups) = 2
    /\ \E j \in 1..2 : /\ merged[1].groups[j].line_count = 2
                        /\ merged[1].groups[j].token_count = 3

\* the reports returned for the matches in another order are the reports
\* returned for the matches as given
C30_ReportsIdenticalUnderPermutation ==
    \A c \in DOMAIN rearranged : rearranged[c].reports = reports

\* key=lambda g: (g.file_a, g.lines_a) of the groups of a report, in order
GroupKeys(report) ==
    [j \in DOMAIN report.groups |-> <<report.groups[j].file_a, report.groups[j].lines_a>>]

\* C30: aggregate_clone_matches on any permutation of its input returns
\* reports of the same file pairs in the same order, each with the same
\* groups (line ranges, line counts, token counts) and the same
\* total_cloned_lines; the group lists are identical except for the
\* relative order of groups that have equal (file_a, lines_a)
C30_SameGroupsUnderPermutation ==
    \A c \in DOMAIN rearranged :
        LET rs == rearranged[c].reports
        IN  /\ Len(rs) = Len(reports)
            /\ \A i \in DOMAIN rs :
                  /\ rs[i].file_a = reports[i].file_a
                  /\ rs[i].file_b = reports[i].file_b
                  /\ rs[i].total_cloned_lines = reports[i].total_cloned_lines
                  /\ GroupKeys(rs[i]) = GroupKeys(reports[i])
                  /\ GroupSet(<<rs[i]>>) = GroupSet(<<reports[i]>>)

\* the matches in another order gave the same two reports but for the
\* first, whose two groups of lines 1-2 of a changed places
C30_Witness ==
    /\ Len(rearranged) = 1
    /\ Len(reports) = 2
    /\ Len(rearranged[1].reports) = 2
    /\ rearranged[1].reports[2] = reports[2]
    /\ Len(reports[1].groups) = 2
    /\ rearranged[1].reports[1].groups = Reversed(reports[1].groups)
    /\ reports[1].groups[1] # reports[1].groups[2]
    /\ reports[1].groups[1].lines_a = <<1, 2>>

====
